---- MODULE Spec2Model ----
(***************************************************************************)
(* A model of go-libp2p-nym: the per-connection reordering queue           *)
(* (queue/queue.go), the transport core with its connection handshake      *)
(* (transport/transport.go, transport/listener.go), the connection with    *)
(* its substream multiplexing (transport/conn.go) and the substream        *)
(* read/write path (transport/substream.go), the wire codec of the         *)
(* message package, and the gateway session of the mixnet package.         *)
(*                                                                         *)
(* Several specifications share the variables:                             *)
(*   SpecQueue   one MessageQueue driven by arbitrary TryPush/Pop calls    *)
(*   Spec        the handshake: Listen, Dial with its timeouts, the        *)
(*               dispatcher, and the Close of listeners, connections and   *)
(*               transports                                                *)
(*   SpecHappy   the handshake with nothing going wrong, under fairness    *)
(*   SpecStream  one connection from A to B and the substreams on it       *)
(*   SpecFaults  the same with one OpenStream call and with closes and     *)
(*               cancellations of substreams, connections and opens        *)
(*   SpecCancel  SpecStream with the transports' contexts cancelled        *)
(*   SpecBlocked the handshake while the gateway may stop draining the     *)
(*               outbound queue, with fair Dial calls                      *)
(*   SpecShutdown  Spec without Listen and Dial calls after Close          *)
(*   SpecTeardown  one connection, OpenStream taken statement by statement *)
(*               while the connection is closed                            *)
(*   SpecClose   one connection and one substream, closeWithControl taken  *)
(*               statement by statement                                    *)
(*   SpecEcho    SpecStream with every substream opened by A               *)
(*   SpecGateway the handshake while the gateway session may fail and the  *)
(*               inbound channel is closed under the dispatcher            *)
(*   SpecCodec   the wire codec (message/message.go, message/recipient.go) *)
(*               applied to one message: Encode, then Decode               *)
(*   SpecDuplicate  the handshake with a ConnectionRequest that arrives    *)
(*               again                                                     *)
(*   SpecNotify  the handshake with several listeners on a transport       *)
(*   SpecRepeat  one connection whose peer uses a SubstreamID again        *)
(*   SpecStartup the gateway session (mixnet Initialize) from its start,   *)
(*               the frames read before the SelfAddress frame              *)
(*   SpecSession the gateway session once started: reader, writer and the  *)
(*               ways it ends                                              *)
(*   SpecStall   one connection, two substreams, one of them never read,   *)
(*               under fairness                                            *)
(*   SpecSignals one listener, one Dial and one OpenStream call with every *)
(*               close racing every inbound message                        *)
(***************************************************************************)
EXTENDS Integers, Sequences, FiniteSets, TLC

\* ------------------------------------------------------------------ bounds

\* Largest nonce a caller of the stand-alone queue pushes.
MaxNonce == 4
\* Number of TryPush calls made on the stand-alone queue.
MaxPushes == 4
\* Number of Reset calls made on the stand-alone queue.
MaxResets == 1
\* Number of Dial calls made, all transports together.
MaxDials == 1
\* Number of Listen calls made, all transports together.
MaxListens == 1
\* Number of times the mixnet delivers a ConnectionRequest again, per transport.
MaxDuplicates == 2
\* Number of listeners registered on the dialed transport when a dial starts.
MaxRegistered == 2
\* Number of frames the gateway delivers on the websocket of a session.
MaxFrames == 34
\* Number of frames other than well-formed Received and SelfAddress among them.
MaxSkipped == 1
\* Number of frames the gateway delivers to a session that starts running.
MaxSteadyFrames == 2
\* Number of messages callers hand to the outbound queue of a session.
MaxOutbound == 2
\* Number of Write calls made on the substream whose reader never reads.
MaxStallWrites == 33
\* Number of OpenStream calls made, all connections together.
MaxOpens == 2
\* Number of Write calls made, all substreams together.
MaxWrites == 2
\* Largest number of bytes passed to one Write.
MaxWriteLen == 2
\* Largest buffer passed to one Read.
MaxReadLen == 2
\* The Close, CloseRead and Reset calls made on one substream.
MaxCloses == 2
\* Largest Data payload given to the stand-alone codec.
MaxPayloadLen == 2

\* ------------------------------------------------------ program constants

\* Capacity of listener.incoming.
ListenerQueueCap == 16
\* Capacity of dialState.resultCh.
ResultSlotCap == 1
\* Capacity of Conn.inboundSubstreams.
InboundSubstreamsCap == 8
\* Capacity of Substream.inbound.
SubstreamInboundCap == 32
\* message: lengths of the identifiers, of a Recipient and of each of its keys.
ConnectionIDLength == 32
SubstreamIDLength == 32
RecipientLength == 96
KeyLength == 32
\* message.MessageType.
MessageTypeConnectionRequest == 0
MessageTypeConnectionResponse == 1
MessageTypeTransport == 2
\* message.SubstreamMessageType.
SubstreamMessageOpenRequest == 0
SubstreamMessageOpenResponse == 1
SubstreamMessageClose == 2
SubstreamMessageData == 3

\* ---------------------------------------------------------------- helpers

Range(s) == { s[i] : i \in DOMAIN s }

Iota(n) == [ i \in 1..n |-> i ]

\* ------------------------------------------------- queue/queue.go: MessageQueue

\* queue.New: nextExpectedNonce 0, nothing pending.
NewQueue == [ nextExpectedNonce |-> 0, pending |-> << >>, nonces |-> << >> ]

\* sort.Search(len(nonces), nonces[i] >= nonce), as a 1-based index.
SearchIdx(nonces, nonce) ==
    IF \E i \in 1..Len(nonces) : nonces[i] >= nonce
    THEN CHOOSE i \in 1..Len(nonces) :
            /\ nonces[i] >= nonce
            /\ \A j \in 1..(i - 1) : nonces[j] < nonce
    ELSE Len(nonces) + 1

\* A faulty insert that appends the nonce without keeping the index sorted.
insertLockedUnsorted(q, msg) ==
    [ q EXCEPT !.pending = (msg.Nonce :> msg) @@ q.pending,
               !.nonces  = Append(q.nonces, msg.Nonce) ]

\* MessageQueue.insertLocked: store msg and keep the nonce index sorted.
insertLocked(q, msg) ==
    LET nonce == msg.Nonce
        idx   == SearchIdx(q.nonces, nonce)
        pend  == (nonce :> msg) @@ q.pending
    IN  IF idx = Len(q.nonces) + 1
        THEN [ q EXCEPT !.pending = pend, !.nonces = Append(q.nonces, nonce) ]
        ELSE IF q.nonces[idx] = nonce
        THEN [ q EXCEPT !.pending = pend ]
        ELSE [ q EXCEPT !.pending = pend,
                        !.nonces  = SubSeq(q.nonces, 1, idx - 1) \o << nonce >>
                                    \o SubSeq(q.nonces, idx, Len(q.nonces)) ]

\* MessageQueue.SetConnectionMessageReceived on a queue not armed yet.
SetConnectionMessageReceived(q) == [ q EXCEPT !.nextExpectedNonce = 1 ]

\* A faulty TryPush that releases any frame at or past the expected nonce.
TryPushSkipping(q, msg) ==
    IF q.nextExpectedNonce = 0
    THEN [ q |-> insertLocked(q, msg), ready |-> << >> ]
    ELSE IF msg.Nonce >= q.nextExpectedNonce
    THEN [ q |-> [ q EXCEPT !.nextExpectedNonce = msg.Nonce + 1 ], ready |-> << msg >> ]
    ELSE [ q |-> q, ready |-> << >> ]

\* MessageQueue.TryPush: the queue afterwards and the frame released, if any.
TryPush(q, msg) ==
    IF q.nextExpectedNonce = 0
    THEN [ q |-> insertLocked(q, msg), ready |-> << >> ]
    ELSE IF msg.Nonce = q.nextExpectedNonce
    THEN [ q |-> [ q EXCEPT !.nextExpectedNonce = @ + 1 ], ready |-> << msg >> ]
    ELSE IF msg.Nonce < q.nextExpectedNonce
    THEN [ q |-> q, ready |-> << >> ]
    ELSE IF msg.Nonce \notin DOMAIN q.pending
    THEN [ q |-> insertLocked(q, msg), ready |-> << >> ]
    ELSE [ q |-> q, ready |-> << >> ]

\* MessageQueue.Pop: the queue afterwards and the frame released, if any.
Pop(q) ==
    IF q.nextExpectedNonce = 0 \/ Len(q.nonces) = 0
    THEN [ q |-> q, ready |-> << >> ]
    ELSE LET smallest == q.nonces[1]
         IN  IF smallest # q.nextExpectedNonce
             THEN [ q |-> q, ready |-> << >> ]
             ELSE [ q |-> [ nextExpectedNonce |-> q.nextExpectedNonce + 1,
                            pending |-> [ k \in DOMAIN q.pending \ { smallest }
                                            |-> q.pending[k] ],
                            nonces  |-> Tail(q.nonces) ],
                    ready |-> << q.pending[smallest] >> ]

\* A faulty Reset that disarms the queue and keeps what it has buffered.
ResetKeeping(q) == [ q EXCEPT !.nextExpectedNonce = 0 ]

\* MessageQueue.Reset: back to the pre-handshake state, nothing buffered.
Reset(q) == [ nextExpectedNonce |-> 0, pending |-> << >>, nonces |-> << >> ]

\* MessageQueue.PendingNonces.
PendingNonces(q) == q.nonces

\* ------------------------------------------------ identities and messages

\* The transports of the model; each runs the same code.
Peers == { "A", "B" }

\* Transport.localPeer: the peer identity derived from the private key.
LocalPeer(t) == IF t = "A" THEN "PA" ELSE "PB"

\* Transport.selfRecipient: the mixnet address of the transport.
SelfRecipient(t) == IF t = "A" THEN "RA" ELSE "RB"

Recipients == { SelfRecipient(t) : t \in Peers }

PeerIDs == { LocalPeer(t) : t \in Peers }

\* The empty peer.ID a caller passes to Dial when it expects no particular peer.
NoPeer == ""

\* A ConnectionMessage without recipient (recipient-present flag 0).
NoRecipient == ""

NoSub == [ ID |-> 0, Type |-> "None", Data |-> << >> ]

\* message.Message of type ConnectionRequest or ConnectionResponse.
ConnectionMessage(type, peer, rcpt, id) ==
    [ Type |-> type, PeerID |-> peer, Recipient |-> rcpt, ID |-> id,
      Nonce |-> 0, Message |-> NoSub ]

\* message.Message of type Transport carrying a SubstreamMessage.
TransportMessage(nonce, id, sub) ==
    [ Type |-> "Transport", PeerID |-> NoPeer, Recipient |-> NoRecipient, ID |-> id,
      Nonce |-> nonce, Message |-> sub ]

\* A SubstreamMessage that does not carry the SubstreamID it is given.
SubstreamMessageOneID(sid, type, data) == [ ID |-> 1, Type |-> type, Data |-> data ]

\* message.SubstreamMessage.
SubstreamMessage(sid, type, data) == [ ID |-> sid, Type |-> type, Data |-> data ]

\* Removal of a key from a map.
MapDelete(f, k) == [ x \in DOMAIN f \ { k } |-> f[x] ]

\* Assignment of a key of a map.
MapPut(f, k, v) == (k :> v) @@ f

\* ------------------------------------------------ transport/conn.go: Conn

\* newConn: the connection object as constructed; the queue is handed in.
newConn(t, connID, remotePeer, remoteRecipient, q) ==
    [ t |-> t, id |-> connID,
      localPeer |-> LocalPeer(t), remotePeer |-> remotePeer,
      remoteRecipient |-> remoteRecipient,
      queue |-> q,
      closePc |-> 0,
      streams |-> << >>, pendingOutbound |-> << >>,
      nonce |-> 0,
      inboundSubstreams |-> << >>,
      held |-> FALSE,
      sent |-> << >> ]

\* Conn.closed, which Close sets first; closeCh and inboundSubstreams are
\* closed right after it.
ConnClosed(c) == c.closePc >= 1

\* ---------------------------------------------------------------- state

VARIABLES
    codec,        \* the stand-alone codec: a message, its encoding and what Decode
                  \* makes of it
    session,      \* the stand-alone gateway session: the websocket, the startup loop,
                  \* the reader and writer goroutines and the two queues
    mq,           \* the stand-alone MessageQueue
    qlog,         \* what its caller has seen: pushed, released, armedAt, resets, panicked
    tstate,       \* per transport: ctx cancelled, panicked, progress of Transport.Close,
                  \* outbound queue full and not drained
    disp,         \* per transport: where processInbound stands
    listeners,    \* per transport: Transport.listeners, a set of listener objects
    connections,  \* per transport: Transport.connections, ConnectionID -> Conn object
    pendingDials, \* per transport: Transport.pendingDials, ConnectionID -> Dial call
    lsn,          \* the listener objects
    dials,        \* the Dial calls, each with its dialState
    conns,        \* the Conn objects
    subs,         \* the Substream objects
    opens,        \* the OpenStream calls, each with its pendingSubstream
    net           \* the messages handed to the gateway and not yet received

qvars == << mq, qlog >>

tvars == << tstate, disp, listeners, connections, pendingDials, lsn, dials, conns,
            subs, opens, net >>

vars == << codec, session, mq, qlog, tstate, disp, listeners, connections, pendingDials, lsn, dials,
           conns, subs, opens, net >>

\* ------------------------------------------------- the stand-alone queue

QInit ==
    /\ mq = NewQueue
    /\ qlog = [ pushed |-> << >>, released |-> << >>, armedAt |-> -1,
                resets |-> 0, panicked |-> FALSE ]

Idle == [ pc |-> "idle", conn |-> 0, frame |-> TransportMessage(0, 0, NoSub) ]

\* newWithMixnet for every transport: empty maps, processInbound started.
TInit ==
    /\ tstate = [ t \in Peers |-> [ ctxDone |-> FALSE, panicked |-> FALSE, closePc |-> 0,
                                    toShutdown |-> {}, toClose |-> {},
                                    outboundFull |-> FALSE, sessionFailed |-> FALSE,
                                    duplicates |-> 0 ] ]
    /\ disp = [ t \in Peers |-> Idle ]
    /\ listeners = [ t \in Peers |-> {} ]
    /\ connections = [ t \in Peers |-> << >> ]
    /\ pendingDials = [ t \in Peers |-> << >> ]
    /\ lsn = << >>
    /\ dials = << >>
    /\ conns = << >>
    /\ subs = << >>
    /\ opens = << >>
    /\ net = {}

\* No message has been given to the codec.
CIdle == [ pc |-> "idle", msg |-> << >>, wire |-> << >>, back |-> << >> ]

\* No gateway session has been started.
SIdle ==
    [ pc |-> "idle", ctxDone |-> FALSE, wireDown |-> FALSE, connClosed |-> FALSE,
      seen |-> 0, skipped |-> 0, inbound |-> << >>, inboundClosed |-> FALSE,
      pre |-> {}, dropped |-> {}, delivered |-> << >>,
      reader |-> "top", writer |-> "select", dispatcher |-> "run",
      outbound |-> 0, sends |-> 0, written |-> 0 ]

Init == QInit /\ TInit /\ codec = CIdle /\ session = SIdle

\* SetConnectionMessageReceived; a second call on an armed queue panics.
QArm ==
    /\ ~qlog.panicked
    /\ IF mq.nextExpectedNonce # 0
       THEN /\ qlog' = [ qlog EXCEPT !.panicked = TRUE ]
            /\ mq' = mq
       ELSE /\ mq' = SetConnectionMessageReceived(mq)
            /\ qlog' = [ qlog EXCEPT !.armedAt =
                            IF @ = -1 THEN Len(qlog.pushed) ELSE @ ]

\* TryPush of a frame with nonce n; the frame carries the serial of the call.
QTryPush(n) ==
    /\ ~qlog.panicked
    /\ Len(qlog.pushed) < MaxPushes
    /\ LET msg == [ Nonce |-> n, Message |-> Len(qlog.pushed) + 1 ]
           r   == TryPush(mq, msg)
       IN  /\ mq' = r.q
           /\ qlog' = [ qlog EXCEPT !.pushed = Append(@, n),
                                    !.released = @ \o r.ready ]

\* Pop, whatever it yields.
QPop ==
    /\ ~qlog.panicked
    /\ LET r == Pop(mq)
       IN  /\ mq' = r.q
           /\ qlog' = [ qlog EXCEPT !.released = @ \o r.ready ]

\* Reset.
QReset ==
    /\ ~qlog.panicked
    /\ qlog.resets < MaxResets
    /\ mq' = Reset(mq)
    /\ qlog' = [ qlog EXCEPT !.resets = @ + 1 ]

NextQueue ==
    \/ QArm /\ UNCHANGED << codec, session, tvars >>
    \/ \E n \in 0..MaxNonce : QTryPush(n) /\ UNCHANGED << codec, session, tvars >>
    \/ QPop /\ UNCHANGED << codec, session, tvars >>
    \/ QReset /\ UNCHANGED << codec, session, tvars >>

SpecQueue == Init /\ [][NextQueue]_vars

\* --------------------------------------------- transport/transport.go: Transport

\* A transport whose process has not panicked.
Alive(t) == ~tstate[t].panicked

\* Transport.sendMixnetMessage selects between ctx.Done and the outbound queue,
\* which has room here: the send succeeds while the context is live, and Go
\* picks either case once it is cancelled.
SendOutcomes(t) == IF tstate[t].ctxDone THEN { TRUE, FALSE } ELSE { TRUE }

\* The entry of a message in the mixnet, addressed to a recipient.
Packet(rcpt, msg) == [ to |-> rcpt, msg |-> msg ]

\* A faulty removePendingDial that closes the result slot and keeps the entry.
removePendingDialKeeping(pd, key) == pd

\* Transport.removePendingDial: the pending-dial table without the key.
removePendingDial(pd, key) == IF key \in DOMAIN pd THEN MapDelete(pd, key) ELSE pd

\* A faulty removeConnection that leaves the index as it is.
removeConnectionKeeping(cm, key) == cm

\* Transport.removeConnection: whatever is indexed under the key is deleted.
removeConnection(cm, key) == IF key \in DOMAIN cm THEN MapDelete(cm, key) ELSE cm

\* A connection on which Conn.Close has run to its end before anyone else
\* could see it (the dispatcher closes a connection it has just constructed).
Closed(conn) == [ conn EXCEPT !.closePc = 3 ]

\* The queue handed to newConn by both handshake handlers: new and armed.
ArmedQueue == SetConnectionMessageReceived(NewQueue)

\* A faulty connection for a response, with the recipient taken from the
\* message (absent in a response) instead of the pending dial.
ResponseConnFromMessage(t, connMsg, state) ==
    newConn(t, connMsg.ID, connMsg.PeerID, connMsg.Recipient, ArmedQueue)

\* The connection handleConnectionResponse constructs for a pending dial.
ResponseConn(t, connMsg, state) ==
    newConn(t, connMsg.ID, connMsg.PeerID, state.remoteRecipient, ArmedQueue)

\* The connection handleConnectionRequest constructs.
RequestConn(t, connMsg) ==
    newConn(t, connMsg.ID, connMsg.PeerID, connMsg.Recipient, ArmedQueue)

\* Transport.Listen: a new listener, registered.
Listen(t) ==
    /\ Alive(t)
    /\ Len(lsn) < MaxListens
    /\ lsn' = Append(lsn, [ t |-> t, incoming |-> << >>, closed |-> FALSE,
                            closePc |-> 0, accepted |-> << >> ])
    /\ listeners' = [ listeners EXCEPT ![t] = @ \cup { Len(lsn) + 1 } ]
    /\ UNCHANGED << codec, session, mq, qlog, tstate, disp, connections,
                    pendingDials, dials, conns, subs, opens, net >>

\* Transport.Dial up to its select: a fresh ConnectionID, the pending dial
\* registered and the ConnectionRequest sent; a failed send drops the entry.
DialStart(t, addr, p) ==
    /\ Alive(t)
    /\ Len(dials) < MaxDials
    /\ LET d      == Len(dials) + 1
           connID == d
           call(pc, err, closed) ==
               [ t |-> t, remoteRecipient |-> addr, p |-> p, id |-> connID,
                 resultCh |-> << >>, chClosed |-> closed, pc |-> pc,
                 conn |-> 0, tmp |-> 0, err |-> err ]
       IN  IF connID \in DOMAIN pendingDials[t]
           THEN /\ dials' = Append(dials, call("done", "collision", FALSE))
                /\ UNCHANGED << pendingDials, net >>
           ELSE \E ok \in SendOutcomes(t) :
                  IF ok
                  THEN /\ pendingDials' = [ pendingDials EXCEPT ![t] = MapPut(@, connID, d) ]
                       /\ net' = net \cup { Packet(addr,
                                   ConnectionMessage("ConnectionRequest", LocalPeer(t),
                                                     SelfRecipient(t), connID)) }
                       /\ dials' = Append(dials, call("select", "", FALSE))
                  ELSE /\ dials' = Append(dials, call("done", "canceled", TRUE))
                       /\ UNCHANGED << pendingDials, net >>
    /\ UNCHANGED << codec, session, mq, qlog, tstate, disp, listeners,
                    connections, lsn, conns, subs, opens >>

\* Dial's select takes the result slot: the connection is returned, or closed
\* on a peer mismatch, or the slot was closed and the dial is aborted.
DialResult(d) ==
    /\ dials[d].pc = "select"
    /\ Alive(dials[d].t)
    /\ \/ /\ dials[d].resultCh # << >>
          /\ LET c == Head(dials[d].resultCh)
             IN  IF dials[d].p # NoPeer /\ conns[c].remotePeer # dials[d].p
                 THEN IF conns[c].closePc = 0
                      THEN /\ conns' = [ conns EXCEPT ![c].closePc = 1 ]
                           /\ dials' = [ dials EXCEPT ![d].pc = "closing", ![d].tmp = c,
                                                      ![d].resultCh = << >> ]
                      ELSE /\ conns' = conns
                           /\ dials' = [ dials EXCEPT ![d].pc = "done", ![d].tmp = c,
                                                      ![d].err = "mismatch",
                                                      ![d].resultCh = << >> ]
                 ELSE /\ conns' = [ conns EXCEPT ![c].held = TRUE ]
                      /\ dials' = [ dials EXCEPT ![d].pc = "done", ![d].conn = c,
                                                 ![d].resultCh = << >> ]
       \/ /\ dials[d].resultCh = << >>
          /\ dials[d].chClosed
          /\ dials' = [ dials EXCEPT ![d].pc = "done", ![d].err = "aborted" ]
          /\ conns' = conns
    /\ UNCHANGED << codec, session, mq, qlog, tstate, disp, listeners,
                    connections, pendingDials, lsn, subs, opens, net >>

\* Dial returns the mismatch once the Close it called has run.
DialCloseReturn(d) ==
    /\ dials[d].pc = "closing"
    /\ Alive(dials[d].t)
    /\ conns[dials[d].tmp].closePc = 3
    /\ dials' = [ dials EXCEPT ![d].pc = "done", ![d].err = "mismatch" ]
    /\ UNCHANGED << codec, session, mq, qlog, tstate, disp, listeners,
                    connections, pendingDials, lsn, conns, subs, opens, net >>

\* Dial's select takes handshakeCtx.Done: the handshake timeout ("deadline")
\* or the caller's context ("canceled").
DialTimeoutFire(d, err) ==
    /\ dials[d].pc = "select"
    /\ Alive(dials[d].t)
    /\ dials' = [ dials EXCEPT ![d].pc = "ctxdone", ![d].err = err ]
    /\ UNCHANGED << codec, session, mq, qlog, tstate, disp, listeners,
                    connections, pendingDials, lsn, conns, subs, opens, net >>

\* Dial's select takes t.ctx.Done after the transport was shut down.
DialShutdownFire(d) ==
    /\ dials[d].pc = "select"
    /\ Alive(dials[d].t)
    /\ tstate[dials[d].t].ctxDone
    /\ dials' = [ dials EXCEPT ![d].pc = "ctxdone", ![d].err = "shutdown" ]
    /\ UNCHANGED << codec, session, mq, qlog, tstate, disp, listeners,
                    connections, pendingDials, lsn, conns, subs, opens, net >>

\* Dial after either Done case: removePendingDial, then the error is returned.
DialRemovePending(d) ==
    /\ dials[d].pc = "ctxdone"
    /\ Alive(dials[d].t)
    /\ LET t == dials[d].t
           key == dials[d].id
       IN  /\ pendingDials' = [ pendingDials EXCEPT ![t] = removePendingDial(@, key) ]
           /\ dials' = [ dials EXCEPT ![d].pc = "done",
                           ![d].chClosed = @ \/ key \in DOMAIN pendingDials[t] ]
    /\ UNCHANGED << codec, session, mq, qlog, tstate, disp, listeners,
                    connections, lsn, conns, subs, opens, net >>

\* A notifyListeners that offers the connection to one listener only.
notifyOneListener(t, c) ==
    [ l \in DOMAIN lsn |->
        IF l \in listeners[t] /\ ~lsn[l].closed /\ \A k \in listeners[t] : l <= k
        THEN [ lsn[l] EXCEPT !.incoming = Append(@, c) ]
        ELSE lsn[l] ]

\* listener.enqueue for every registered listener (Transport.notifyListeners):
\* an open listener queues the connection, a shut-down listener still
\* registered drops it.
notifyListeners(t, c) ==
    [ l \in DOMAIN lsn |->
        IF l \in listeners[t] /\ ~lsn[l].closed
        THEN [ lsn[l] EXCEPT !.incoming = Append(@, c) ]
        ELSE lsn[l] ]

\* The messages waiting for the dispatcher of t.
Inbox(t) == { m \in net : m.to = SelfRecipient(t) }

\* A lookup that never finds the ConnectionID.
existsNever(cm, key) == FALSE

\* handleConnectionRequest's lookup of the ConnectionID in t.connections.
exists(cm, key) == key \in DOMAIN cm

\* Transport.handleConnectionRequest, run by processInbound.
HandleConnectionRequest(t, m) ==
    /\ Alive(t)
    /\ disp[t].pc = "idle"
    /\ m \in Inbox(t)
    /\ m.msg.Type = "ConnectionRequest"
    /\ LET connMsg == m.msg
           key     == connMsg.ID
           c       == Len(conns) + 1
       IN  IF connMsg.Recipient = NoRecipient \/ exists(connections[t], key)
           THEN /\ net' = net \ { m }
                /\ UNCHANGED << tstate, connections, lsn, conns >>
           ELSE \E ok \in SendOutcomes(t) :
                  IF ok
                  THEN /\ net' = (net \ { m }) \cup { Packet(connMsg.Recipient,
                                   ConnectionMessage("ConnectionResponse", LocalPeer(t),
                                                     NoRecipient, connMsg.ID)) }
                       /\ connections' = [ connections EXCEPT ![t] = MapPut(@, key, c) ]
                       /\ conns' = Append(conns, RequestConn(t, connMsg))
                       /\ \A l \in listeners[t] : Len(lsn[l].incoming) < ListenerQueueCap
                       /\ \/ /\ lsn' = notifyListeners(t, c)
                             /\ tstate' = tstate
                          \/ /\ \E l \in listeners[t] : lsn[l].closed
                             /\ lsn' = lsn
                             /\ tstate' = [ tstate EXCEPT ![t].panicked = TRUE ]
                  ELSE /\ net' = net \ { m }
                       /\ conns' = Append(conns, Closed(RequestConn(t, connMsg)))
                       /\ UNCHANGED << tstate, connections, lsn >>
    /\ UNCHANGED << codec, session, mq, qlog, disp, listeners, pendingDials,
                    dials, subs, opens >>

\* Transport.handleConnectionResponse, run by processInbound.
HandleConnectionResponse(t, m) ==
    /\ Alive(t)
    /\ disp[t].pc = "idle"
    /\ m \in Inbox(t)
    /\ m.msg.Type = "ConnectionResponse"
    /\ net' = net \ { m }
    /\ LET connMsg == m.msg
           key     == connMsg.ID
           c       == Len(conns) + 1
       IN  IF key \notin DOMAIN pendingDials[t]
           THEN UNCHANGED << pendingDials, connections, conns, dials >>
           ELSE LET d == pendingDials[t][key]
                    conn == ResponseConn(t, connMsg, dials[d])
                IN  /\ pendingDials' = [ pendingDials EXCEPT ![t] = MapDelete(@, key) ]
                    /\ IF Len(dials[d].resultCh) < ResultSlotCap
                       THEN /\ dials' = [ dials EXCEPT ![d].resultCh = Append(@, c) ]
                            /\ conns' = Append(conns, conn)
                            /\ connections' = [ connections EXCEPT ![t] = MapPut(@, key, c) ]
                       ELSE /\ dials' = dials
                            /\ conns' = Append(conns, Closed(conn))
                            /\ connections' = [ connections EXCEPT ![t] =
                                                  removeConnection(@, key) ]
    /\ UNCHANGED << codec, session, mq, qlog, tstate, disp, listeners, lsn,
                    subs, opens >>

\* processInbound's select takes ctx.Done and the dispatcher returns.
DispatcherExit(t) ==
    /\ Alive(t)
    /\ disp[t].pc = "idle"
    /\ tstate[t].ctxDone
    /\ disp' = [ disp EXCEPT ![t].pc = "stopped" ]
    /\ UNCHANGED << codec, session, mq, qlog, tstate, listeners, connections,
                    pendingDials, lsn, dials, conns, subs, opens, net >>

\* listener.Accept receiving a connection from the incoming queue.
Accept(l) ==
    /\ Alive(lsn[l].t)
    /\ lsn[l].incoming # << >>
    /\ LET c == Head(lsn[l].incoming)
       IN  /\ lsn' = [ lsn EXCEPT ![l].incoming = Tail(@), ![l].accepted = Append(@, c) ]
           /\ conns' = [ conns EXCEPT ![c].held = TRUE ]
    /\ UNCHANGED << codec, session, mq, qlog, tstate, disp, listeners,
                    connections, pendingDials, dials, subs, opens, net >>

\* listener.shutdown: once, close(closed) and close(incoming).
shutdown(l) == [ l EXCEPT !.closed = TRUE ]

\* listener.Close, first half: shutdown.
ListenerClose(l) ==
    /\ Alive(lsn[l].t)
    /\ lsn[l].closePc = 0
    /\ lsn' = [ lsn EXCEPT ![l] = [ shutdown(@) EXCEPT !.closePc = 1 ] ]
    /\ UNCHANGED << codec, session, mq, qlog, tstate, disp, listeners,
                    connections, pendingDials, dials, conns, subs, opens,
                    net >>

\* listener.Close, second half: the listener leaves Transport.listeners.
ListenerRemove(l) ==
    /\ Alive(lsn[l].t)
    /\ lsn[l].closePc = 1
    /\ lsn' = [ lsn EXCEPT ![l].closePc = 2 ]
    /\ listeners' = [ listeners EXCEPT ![lsn[l].t] = @ \ { l } ]
    /\ UNCHANGED << codec, session, mq, qlog, tstate, disp, connections,
                    pendingDials, dials, conns, subs, opens, net >>

\* Transport.Close: t.cancel().
TransportCancel(t) ==
    /\ Alive(t)
    /\ tstate[t].closePc = 0
    /\ tstate' = [ tstate EXCEPT ![t].ctxDone = TRUE, ![t].closePc = 1 ]
    /\ UNCHANGED << codec, session, mq, qlog, disp, listeners, connections,
                    pendingDials, lsn, dials, conns, subs, opens, net >>

\* Transport.Close under the lock: the listeners and connections are collected
\* and the three maps emptied; every pending dial's result slot is closed.
TransportCollect(t) ==
    /\ Alive(t)
    /\ tstate[t].closePc = 1
    /\ tstate' = [ tstate EXCEPT ![t].closePc = 2,
                                 ![t].toShutdown = listeners[t],
                                 ![t].toClose = Range(connections[t]) ]
    /\ listeners' = [ listeners EXCEPT ![t] = {} ]
    /\ connections' = [ connections EXCEPT ![t] = << >> ]
    /\ pendingDials' = [ pendingDials EXCEPT ![t] = << >> ]
    /\ dials' = [ d \in DOMAIN dials |->
                    IF d \in Range(pendingDials[t])
                    THEN [ dials[d] EXCEPT !.chClosed = TRUE ]
                    ELSE dials[d] ]
    /\ UNCHANGED << codec, session, mq, qlog, disp, lsn, conns, subs, opens,
                    net >>

\* Transport.Close: shutdown of the collected listeners.
TransportShutdownListeners(t) ==
    /\ Alive(t)
    /\ tstate[t].closePc = 2
    /\ tstate' = [ tstate EXCEPT ![t].closePc = IF tstate[t].toClose = {} THEN 4 ELSE 3,
                                 ![t].toShutdown = {} ]
    /\ lsn' = [ l \in DOMAIN lsn |->
                  IF l \in tstate[t].toShutdown THEN shutdown(lsn[l]) ELSE lsn[l] ]
    /\ UNCHANGED << codec, session, mq, qlog, disp, listeners, connections,
                    pendingDials, dials, conns, subs, opens, net >>

\* Transport.Close: conn.Close() on a collected connection.
TransportCloseConn(t, c) ==
    /\ Alive(t)
    /\ tstate[t].closePc = 3
    /\ c \in tstate[t].toClose
    /\ tstate' = [ tstate EXCEPT ![t].toClose = @ \ { c },
                                 ![t].closePc = IF tstate[t].toClose = { c } THEN 4 ELSE 3 ]
    /\ conns' = [ conns EXCEPT ![c].closePc = IF @ = 0 THEN 1 ELSE @ ]
    /\ UNCHANGED << codec, session, mq, qlog, disp, listeners, connections,
                    pendingDials, lsn, dials, subs, opens, net >>

\* Conn.Close called by the holder of the connection: the compare-and-swap on
\* closed succeeds, closeCh and inboundSubstreams are closed.
ConnClose(c) ==
    /\ Alive(conns[c].t)
    /\ conns[c].held
    /\ conns[c].closePc = 0
    /\ conns' = [ conns EXCEPT ![c].closePc = 1 ]
    /\ UNCHANGED << codec, session, mq, qlog, tstate, disp, listeners,
                    connections, pendingDials, lsn, dials, subs, opens, net >>

\* Conn.Close: transport.removeConnection deletes the key of the connection.
ConnCloseRemove(c) ==
    /\ Alive(conns[c].t)
    /\ conns[c].closePc = 1
    /\ conns' = [ conns EXCEPT ![c].closePc = 2 ]
    /\ connections' = [ connections EXCEPT ![conns[c].t] = removeConnection(@, conns[c].id) ]
    /\ UNCHANGED << codec, session, mq, qlog, tstate, disp, listeners,
                    pendingDials, lsn, dials, subs, opens, net >>


\* ------------------------------------------- transport/substream.go: Substream

\* newSubstream.
newSubstream(c, sid) ==
    [ conn |-> c, id |-> sid, inbound |-> << >>, buffer |-> << >>,
      localClosed |-> FALSE, remoteClosed |-> FALSE, chClosed |-> FALSE,
      held |-> FALSE, wcalls |-> 0, wcount |-> 0, rlog |-> << >>, eof |-> FALSE,
      closing |-> "", ccalls |-> 0, closeFrames |-> 0, closes |-> 0, dlog |-> << >> ]

\* close(s.inbound) without channelOnce.
closeInboundAgain(s) == [ s EXCEPT !.chClosed = TRUE, !.closes = @ + 1 ]

\* s.channelOnce.Do(func() { close(s.inbound) }).
closeInbound(s) == IF s.chClosed THEN s ELSE [ s EXCEPT !.chClosed = TRUE, !.closes = @ + 1 ]

\* Substream.remoteClose: the flag is swapped and the inbound queue closed once.
remoteClose(s) ==
    IF s.remoteClosed THEN s ELSE closeInbound([ s EXCEPT !.remoteClosed = TRUE ])

\* A Write that passes on all but the last of its bytes.
PayloadShort(s, len) == [ i \in 1..(len - 1) |-> [ w |-> s, pos |-> subs[s].wcount + i ] ]

\* The bytes a Write of the given length on substream object s passes: each is
\* identified by the writing end and its position in what was written there.
Payload(s, len) == [ i \in 1..len |-> [ w |-> s, pos |-> subs[s].wcount + i ] ]

\* --------------------------------------- transport/conn.go: sending and streams

\* Conn.sendSubstreamMessage: the counter is advanced, then the frame is
\* handed to the gateway unless the send is abandoned.
sendSubstreamMessage(conn, ok) ==
    [ conn EXCEPT !.nonce = @ + 1,
                  !.sent = IF ok THEN Append(@, conn.nonce + 1) ELSE @ ]

\* The frame sendSubstreamMessage builds for a substream message.
Frame(conn, sub) == Packet(conn.remoteRecipient, TransportMessage(conn.nonce + 1, conn.id, sub))

FrameSent(conn, sub, ok) == IF ok THEN { Frame(conn, sub) } ELSE {}

\* Conn.removeStream: the stream leaves the table, and a pending open of the
\* same SubstreamID is dropped with its ready signal closed.
removeStream(conn, sid) ==
    [ conn EXCEPT !.streams = IF sid \in DOMAIN @ THEN MapDelete(@, sid) ELSE @,
                  !.pendingOutbound = IF sid \in DOMAIN @ THEN MapDelete(@, sid) ELSE @ ]

\* The OpenStream calls whose ready signal removeStream closes.
ReadyClosedBy(conn, sid) ==
    IF sid \in DOMAIN conn.pendingOutbound THEN { conn.pendingOutbound[sid] } ELSE {}

CloseReady(os, which) ==
    [ o \in DOMAIN os |-> IF o \in which THEN [ os[o] EXCEPT !.readyClosed = TRUE ] ELSE os[o] ]

\* Conn.OpenStream up to its select: the closed check, a fresh SubstreamID, the
\* pending open registered and the OpenRequest sent.
OpenStart(c) ==
    /\ Alive(conns[c].t)
    /\ conns[c].held
    /\ Len(opens) < MaxOpens
    /\ LET o   == Len(opens) + 1
           sid == o
           s   == Len(subs) + 1
           call(pc, err, stream) ==
               [ conn |-> c, sid |-> sid, stream |-> stream, readyClosed |-> FALSE,
                 pc |-> pc, err |-> err, returned |-> 0, acked |-> FALSE ]
       IN  IF ConnClosed(conns[c])
           THEN /\ opens' = Append(opens, call("done", "reset", 0))
                /\ UNCHANGED << conns, subs, net >>
           ELSE \E ok \in SendOutcomes(conns[c].t) :
                  /\ subs' = Append(subs, newSubstream(c, sid))
                  /\ net' = net \cup FrameSent(conns[c],
                                       SubstreamMessage(sid, "OpenRequest", << >>), ok)
                  /\ conns' = [ conns EXCEPT ![c] =
                        [ sendSubstreamMessage(@, ok) EXCEPT !.pendingOutbound =
                            IF ok THEN MapPut(@, sid, o) ELSE @ ] ]
                  /\ opens' = Append(opens, IF ok THEN call("select", "", s)
                                                  ELSE call("done", "canceled", s))
    /\ UNCHANGED << codec, session, mq, qlog, tstate, disp, listeners,
                    connections, pendingDials, lsn, dials >>

\* OpenStream's select takes pending.ready: the substream is returned.
OpenReady(o) ==
    /\ opens[o].pc = "select"
    /\ Alive(conns[opens[o].conn].t)
    /\ opens[o].readyClosed
    /\ opens' = [ opens EXCEPT ![o].pc = "done", ![o].returned = opens[o].stream ]
    /\ subs' = [ subs EXCEPT ![opens[o].stream].held = TRUE ]
    /\ UNCHANGED << codec, session, mq, qlog, tstate, disp, listeners,
                    connections, pendingDials, lsn, dials, conns, net >>

\* OpenStream's select takes ctx.Done.
OpenCtxDone(o) ==
    /\ opens[o].pc = "select"
    /\ Alive(conns[opens[o].conn].t)
    /\ opens' = [ opens EXCEPT ![o].pc = "ctxdone" ]
    /\ UNCHANGED << codec, session, mq, qlog, tstate, disp, listeners,
                    connections, pendingDials, lsn, dials, conns, subs, net >>

\* An OpenStream that returns ctx.Err() and leaves its pending entry behind.
OpenCancelReturnKeeping(o) ==
    /\ opens[o].pc = "ctxdone"
    /\ Alive(conns[opens[o].conn].t)
    /\ opens' = [ opens EXCEPT ![o].pc = "done", ![o].err = "canceled" ]
    /\ UNCHANGED << codec, session, mq, qlog, tstate, disp, listeners,
                    connections, pendingDials, lsn, dials, conns, subs, net >>

\* OpenStream after ctx.Done: the pending entry is deleted, ctx.Err() returned.
OpenCancelReturn(o) ==
    /\ opens[o].pc = "ctxdone"
    /\ Alive(conns[opens[o].conn].t)
    /\ opens' = [ opens EXCEPT ![o].pc = "done", ![o].err = "canceled" ]
    /\ conns' = [ conns EXCEPT ![opens[o].conn].pendingOutbound =
                    IF opens[o].sid \in DOMAIN @ THEN MapDelete(@, opens[o].sid) ELSE @ ]
    /\ UNCHANGED << codec, session, mq, qlog, tstate, disp, listeners,
                    connections, pendingDials, lsn, dials, subs, net >>

\* OpenStream's select takes closeCh: ErrReset.
OpenReset(o) ==
    /\ opens[o].pc = "select"
    /\ Alive(conns[opens[o].conn].t)
    /\ ConnClosed(conns[opens[o].conn])
    /\ opens' = [ opens EXCEPT ![o].pc = "done", ![o].err = "reset" ]
    /\ UNCHANGED << codec, session, mq, qlog, tstate, disp, listeners,
                    connections, pendingDials, lsn, dials, conns, subs, net >>

\* Conn.AcceptStream receiving a substream from inboundSubstreams.
AcceptStream(c) ==
    /\ Alive(conns[c].t)
    /\ conns[c].held
    /\ conns[c].inboundSubstreams # << >>
    /\ conns' = [ conns EXCEPT ![c].inboundSubstreams = Tail(@) ]
    /\ subs' = [ subs EXCEPT ![Head(conns[c].inboundSubstreams)].held = TRUE ]
    /\ UNCHANGED << codec, session, mq, qlog, tstate, disp, listeners,
                    connections, pendingDials, lsn, dials, opens, net >>

\* The Write calls made so far on the first n substream objects.
RECURSIVE WriteCalls(_)
WriteCalls(n) == IF n = 0 THEN 0 ELSE subs[n].wcalls + WriteCalls(n - 1)

\* Substream.Write of len bytes: refused when locally closed, else one Data
\* frame with a copy of the bytes.
WriteFrame(s, len) ==
    /\ Alive(conns[subs[s].conn].t)
    /\ subs[s].held
    /\ LET c == subs[s].conn
       IN  IF subs[s].localClosed
           THEN /\ subs' = [ subs EXCEPT ![s].wcalls = @ + 1 ]
                /\ UNCHANGED << conns, net >>
           ELSE \E ok \in SendOutcomes(conns[c].t) :
                  /\ subs' = [ subs EXCEPT ![s].wcalls = @ + 1,
                                           ![s].wcount = IF ok THEN @ + len ELSE @ ]
                  /\ conns' = [ conns EXCEPT ![c] = sendSubstreamMessage(@, ok) ]
                  /\ net' = net \cup FrameSent(conns[c],
                               SubstreamMessage(subs[s].id, "Data", Payload(s, len)), ok)
    /\ UNCHANGED << codec, session, mq, qlog, tstate, disp, listeners,
                    connections, pendingDials, lsn, dials, opens >>

\* Write calls, MaxWrites of them on all substreams together.
Write(s, len) ==
    /\ WriteCalls(Len(subs)) < MaxWrites
    /\ WriteFrame(s, len)

\* copy(p, s.buffer) for a p of n bytes with the rest of the buffer dropped.
ReadCopyDropping(s, n) ==
    LET k == IF n < Len(s.buffer) THEN n ELSE Len(s.buffer)
    IN  [ s EXCEPT !.rlog = @ \o SubSeq(s.buffer, 1, k), !.buffer = << >> ]

\* copy(p, s.buffer) for a p of n bytes and the rest kept in the buffer.
ReadCopy(s, n) ==
    LET k == IF n < Len(s.buffer) THEN n ELSE Len(s.buffer)
    IN  [ s EXCEPT !.rlog = @ \o SubSeq(s.buffer, 1, k),
                   !.buffer = SubSeq(s.buffer, k + 1, Len(s.buffer)) ]

\* Substream.Read into a buffer of n >= 1 bytes; it blocks while nothing is
\* buffered or queued and the queue is open.
Read(s, n) ==
    /\ Alive(conns[subs[s].conn].t)
    /\ subs[s].held
    /\ IF subs[s].buffer # << >>
       THEN subs' = [ subs EXCEPT ![s] = ReadCopy(@, n) ]
       ELSE IF subs[s].inbound # << >>
       THEN LET data == Head(subs[s].inbound)
                got  == [ subs[s] EXCEPT !.inbound = Tail(@) ]
            IN  IF Len(data) = 0
                THEN subs' = [ subs EXCEPT ![s] = got ]
                ELSE subs' = [ subs EXCEPT ![s] = ReadCopy([ got EXCEPT !.buffer = data ], n) ]
       ELSE /\ subs[s].chClosed
            /\ ~subs[s].eof
            /\ subs' = [ subs EXCEPT ![s].eof = TRUE ]
    /\ UNCHANGED << codec, session, mq, qlog, tstate, disp, listeners,
                    connections, pendingDials, lsn, dials, conns, opens, net >>

\* Substream.closeWithControl (Close, CloseWrite and Reset pass sendControl,
\* CloseRead does not), with Conn.closeLocalStream.
closeWithControl(s, sendControl) ==
    /\ Alive(conns[subs[s].conn].t)
    /\ subs[s].held
    /\ ~subs[s].localClosed
    /\ subs' = [ subs EXCEPT ![s] = closeInbound(
                   [ @ EXCEPT !.localClosed = TRUE, !.remoteClosed = TRUE,
                              !.closing = "done", !.ccalls = @ + 1,
                              !.closeFrames = IF sendControl /\ ~ConnClosed(conns[subs[s].conn])
                                              THEN @ + 1 ELSE @ ]) ]
    /\ LET c == subs[s].conn
       IN  IF sendControl /\ ~ConnClosed(conns[c])
           THEN \E ok \in SendOutcomes(conns[c].t) :
                  /\ net' = net \cup FrameSent(conns[c],
                               SubstreamMessage(subs[s].id, "Close", << >>), ok)
                  /\ conns' = [ conns EXCEPT ![c] =
                                  removeStream(sendSubstreamMessage(@, ok), subs[s].id) ]
                  /\ opens' = CloseReady(opens, ReadyClosedBy(conns[c], subs[s].id))
           ELSE UNCHANGED << conns, opens, net >>
    /\ UNCHANGED << codec, session, mq, qlog, tstate, disp, listeners,
                    connections, pendingDials, lsn, dials >>

\* Conn.Close under streamsMu: every pending open's ready signal is closed and
\* every indexed substream is remote-closed; both tables are emptied.
ConnCloseStreams(c) ==
    /\ Alive(conns[c].t)
    /\ conns[c].closePc = 2
    /\ conns' = [ conns EXCEPT ![c].closePc = 3, ![c].streams = << >>,
                               ![c].pendingOutbound = << >> ]
    /\ opens' = CloseReady(opens, Range(conns[c].pendingOutbound))
    /\ subs' = [ s \in DOMAIN subs |->
                   IF s \in Range(conns[c].streams) THEN remoteClose(subs[s]) ELSE subs[s] ]
    /\ UNCHANGED << codec, session, mq, qlog, tstate, disp, listeners,
                    connections, pendingDials, lsn, dials, net >>

\* ------------------------------------- the dispatcher and the transport frames

\* After a frame: Conn.handleTransportMessage pops the next frame in order, or
\* processInbound goes back to its select.
AfterFrame(t, c, cs) ==
    LET r == Pop(cs[c].queue)
    IN  /\ conns' = [ cs EXCEPT ![c].queue = r.q ]
        /\ disp' = [ disp EXCEPT ![t] =
                       IF r.ready # << >>
                       THEN [ pc |-> "frame", conn |-> c, frame |-> r.ready[1] ]
                       ELSE Idle ]

\* Transport.handleTransportMessage: the connection is looked up and the frame
\* offered to its queue (Conn.handleTransportMessage, TryPush).
DeliverTransport(t, m) ==
    /\ Alive(t)
    /\ disp[t].pc = "idle"
    /\ m \in Inbox(t)
    /\ m.msg.Type = "Transport"
    /\ net' = net \ { m }
    /\ IF m.msg.ID \notin DOMAIN connections[t]
       THEN UNCHANGED << conns, disp >>
       ELSE LET c == connections[t][m.msg.ID]
                r == TryPush(conns[c].queue, m.msg)
            IN  IF r.ready # << >>
                THEN /\ conns' = [ conns EXCEPT ![c].queue = r.q ]
                     /\ disp' = [ disp EXCEPT ![t] =
                                    [ pc |-> "frame", conn |-> c, frame |-> r.ready[1] ] ]
                ELSE AfterFrame(t, c, [ conns EXCEPT ![c].queue = r.q ])
    /\ UNCHANGED << codec, session, mq, qlog, tstate, listeners, connections,
                    pendingDials, lsn, dials, subs, opens >>

\* The dispatcher of t is about to process a released frame of this type.
AtFrame(t, type) ==
    /\ Alive(t)
    /\ disp[t].pc = "frame"
    /\ disp[t].frame.Message.Type = type

\* Conn.handleOpenRequest with Conn.enqueueInboundStream: on a closed
\* connection the select takes closeCh or sends on the closed queue.
HandleOpenRequest(t) ==
    /\ AtFrame(t, "OpenRequest")
    /\ LET c   == disp[t].conn
           sid == disp[t].frame.Message.ID
           s   == Len(subs) + 1
       IN  /\ subs' = Append(subs, newSubstream(c, sid))
           /\ \E ok \in SendOutcomes(t) :
                /\ net' = net \cup FrameSent(conns[c],
                             SubstreamMessage(sid, "OpenResponse", << >>), ok)
                /\ LET sent == [ sendSubstreamMessage(conns[c], ok)
                                   EXCEPT !.streams = MapPut(@, sid, s) ]
                   IN  IF ConnClosed(conns[c])
                       THEN \/ /\ AfterFrame(t, c, [ conns EXCEPT ![c] = sent ])
                               /\ tstate' = tstate
                            \/ /\ conns' = [ conns EXCEPT ![c] = sent ]
                               /\ disp' = disp
                               /\ tstate' = [ tstate EXCEPT ![t].panicked = TRUE ]
                       ELSE /\ Len(conns[c].inboundSubstreams) < InboundSubstreamsCap
                            /\ AfterFrame(t, c, [ conns EXCEPT ![c] =
                                 [ sent EXCEPT !.inboundSubstreams = Append(@, s) ] ])
                            /\ tstate' = tstate
    /\ UNCHANGED << codec, session, mq, qlog, listeners, connections,
                    pendingDials, lsn, dials, opens >>

\* Conn.handleOpenResponse.
HandleOpenResponse(t) ==
    /\ AtFrame(t, "OpenResponse")
    /\ LET c   == disp[t].conn
           sid == disp[t].frame.Message.ID
       IN  IF sid \notin DOMAIN conns[c].pendingOutbound
           THEN /\ AfterFrame(t, c, conns)
                /\ opens' = opens
           ELSE LET o == conns[c].pendingOutbound[sid]
                IN  /\ AfterFrame(t, c, [ conns EXCEPT
                            ![c].pendingOutbound = MapDelete(@, sid),
                            ![c].streams = MapPut(@, sid, opens[o].stream) ])
                    /\ opens' = [ opens EXCEPT ![o].readyClosed = TRUE, ![o].acked = TRUE ]
    /\ UNCHANGED << codec, session, mq, qlog, tstate, listeners, connections,
                    pendingDials, lsn, dials, subs, net >>

\* Substream.pushData's select on an open queue: the send, or closeCh once the
\* connection is closed (Go picks either when both can proceed).
PushOutcomes(conn) == IF ConnClosed(conn) THEN { TRUE, FALSE } ELSE { TRUE }

\* Conn.handleData with Substream.pushData.
HandleData(t) ==
    /\ AtFrame(t, "Data")
    /\ LET c   == disp[t].conn
           sid == disp[t].frame.Message.ID
       IN  /\ AfterFrame(t, c, conns)
           /\ IF sid \notin DOMAIN conns[c].streams
              THEN subs' = subs
              ELSE LET s == conns[c].streams[sid]
                   IN  IF subs[s].remoteClosed \/ subs[s].localClosed
                       THEN subs' = subs
                       ELSE \E push \in PushOutcomes(conns[c]) :
                              IF push
                              THEN /\ Len(subs[s].inbound) < SubstreamInboundCap
                                   /\ subs' = [ subs EXCEPT
                                         ![s].inbound = Append(@, disp[t].frame.Message.Data),
                                         ![s].dlog = @ \o disp[t].frame.Message.Data ]
                              ELSE subs' = subs
    /\ UNCHANGED << codec, session, mq, qlog, tstate, listeners, connections,
                    pendingDials, lsn, dials, opens, net >>

\* Conn.handleClose: removeStream, then remoteClose on the stream removed.
HandleClose(t) ==
    /\ AtFrame(t, "Close")
    /\ LET c   == disp[t].conn
           sid == disp[t].frame.Message.ID
       IN  /\ AfterFrame(t, c, [ conns EXCEPT ![c] = removeStream(@, sid) ])
           /\ opens' = CloseReady(opens, ReadyClosedBy(conns[c], sid))
           /\ IF sid \in DOMAIN conns[c].streams
              THEN subs' = [ subs EXCEPT ![conns[c].streams[sid]] = remoteClose(@) ]
              ELSE subs' = subs
    /\ UNCHANGED << codec, session, mq, qlog, tstate, listeners, connections,
                    pendingDials, lsn, dials, net >>


\* ------------------------------------------------------- the specifications

\* The handshake level: listeners, dials with their timeouts, the dispatcher's
\* handling of ConnectionRequest and ConnectionResponse, and the Close of
\* listeners, connections and transports.
Next ==
    \/ \E t \in Peers : Listen(t)
    \/ \E t \in Peers, addr \in Recipients, p \in { NoPeer } \cup PeerIDs : DialStart(t, addr, p)
    \/ \E d \in DOMAIN dials : DialResult(d)
    \/ \E d \in DOMAIN dials : DialCloseReturn(d)
    \/ \E d \in DOMAIN dials, err \in { "deadline", "canceled" } : DialTimeoutFire(d, err)
    \/ \E d \in DOMAIN dials : DialShutdownFire(d)
    \/ \E d \in DOMAIN dials : DialRemovePending(d)
    \/ \E t \in Peers, m \in net : HandleConnectionRequest(t, m)
    \/ \E t \in Peers, m \in net : HandleConnectionResponse(t, m)
    \/ \E t \in Peers : DispatcherExit(t)
    \/ \E l \in DOMAIN lsn : Accept(l)
    \/ \E l \in DOMAIN lsn : ListenerClose(l)
    \/ \E l \in DOMAIN lsn : ListenerRemove(l)
    \/ \E t \in Peers : TransportCancel(t)
    \/ \E t \in Peers : TransportCollect(t)
    \/ \E t \in Peers : TransportShutdownListeners(t)
    \/ \E t \in Peers, c \in DOMAIN conns : TransportCloseConn(t, c)
    \/ \E c \in DOMAIN conns : ConnClose(c)
    \/ \E c \in DOMAIN conns : ConnCloseRemove(c)
    \/ \E c \in DOMAIN conns : ConnCloseStreams(c)

Spec == Init /\ [][Next]_vars

\* The handshake with nothing going wrong: no timeout, no cancellation, no
\* Close, and a caller that expects no peer or the peer that answers.
ExpectedPeers(addr) == { NoPeer } \cup { LocalPeer(t) : t \in { u \in Peers : SelfRecipient(u) = addr } }

NextHappy ==
    \/ \E t \in Peers : Listen(t)
    \/ \E t \in Peers, addr \in Recipients : \E p \in ExpectedPeers(addr) : DialStart(t, addr, p)
    \/ \E d \in DOMAIN dials : DialResult(d)
    \/ \E t \in Peers, m \in net : HandleConnectionRequest(t, m)
    \/ \E t \in Peers, m \in net : HandleConnectionResponse(t, m)
    \/ \E l \in DOMAIN lsn : Accept(l)

\* Every goroutine is scheduled and the mixnet delivers: a step that can be
\* taken is eventually taken.
SpecHappy == Init /\ [][NextHappy]_vars /\ WF_vars(NextHappy)

\* One connection dialed from A to a listener on B and the substreams opened
\* on it by either side, with nothing closed and nothing cancelled.
NextStream ==
    \/ lsn = << >> /\ Listen("B")
    \/ dials = << >> /\ DialStart("A", SelfRecipient("B"), NoPeer)
    \/ \E d \in DOMAIN dials : DialResult(d)
    \/ \E t \in Peers, m \in net : HandleConnectionRequest(t, m)
    \/ \E t \in Peers, m \in net : HandleConnectionResponse(t, m)
    \/ \E l \in DOMAIN lsn : Accept(l)
    \/ \E t \in Peers, m \in net : DeliverTransport(t, m)
    \/ \E t \in Peers : HandleOpenRequest(t)
    \/ \E t \in Peers : HandleOpenResponse(t)
    \/ \E t \in Peers : HandleData(t)
    \/ \E c \in DOMAIN conns : OpenStart(c)
    \/ \E o \in DOMAIN opens : OpenReady(o)
    \/ \E c \in DOMAIN conns : AcceptStream(c)
    \/ \E s \in DOMAIN subs, len \in 1..MaxWriteLen : Write(s, len)
    \/ \E s \in DOMAIN subs, n \in 1..MaxReadLen : Read(s, n)

SpecStream == Init /\ [][NextStream]_vars

\* The same connection with one OpenStream call, and what can be closed or
\* cancelled while it is used: the substreams, the connections and the
\* OpenStream call.
NextFaults ==
    \/ lsn = << >> /\ Listen("B")
    \/ dials = << >> /\ DialStart("A", SelfRecipient("B"), NoPeer)
    \/ \E d \in DOMAIN dials : DialResult(d)
    \/ \E t \in Peers, m \in net : HandleConnectionRequest(t, m)
    \/ \E t \in Peers, m \in net : HandleConnectionResponse(t, m)
    \/ \E l \in DOMAIN lsn : Accept(l)
    \/ \E t \in Peers, m \in net : DeliverTransport(t, m)
    \/ \E t \in Peers : HandleOpenRequest(t)
    \/ \E t \in Peers : HandleOpenResponse(t)
    \/ \E t \in Peers : HandleData(t)
    \/ opens = << >> /\ \E c \in DOMAIN conns : OpenStart(c)
    \/ \E o \in DOMAIN opens : OpenReady(o)
    \/ \E c \in DOMAIN conns : AcceptStream(c)
    \/ \E s \in DOMAIN subs, len \in 1..MaxWriteLen : Write(s, len)
    \/ \E s \in DOMAIN subs, n \in 1..MaxReadLen : Read(s, n)
    \/ \E t \in Peers : HandleClose(t)
    \/ \E o \in DOMAIN opens : OpenCtxDone(o)
    \/ \E o \in DOMAIN opens : OpenCancelReturn(o)
    \/ \E o \in DOMAIN opens : OpenReset(o)
    \/ \E s \in DOMAIN subs, sendControl \in BOOLEAN : closeWithControl(s, sendControl)
    \/ \E c \in DOMAIN conns : ConnClose(c)
    \/ \E c \in DOMAIN conns : ConnCloseRemove(c)
    \/ \E c \in DOMAIN conns : ConnCloseStreams(c)

SpecFaults == Init /\ [][NextFaults]_vars

\* The same connection and its substreams while either transport may be shut
\* down: Transport.Close cancels the context, and the dispatcher then stops.
NextCancel ==
    \/ NextStream
    \/ \E t \in Peers : TransportCancel(t)
    \/ \E t \in Peers : DispatcherExit(t)

SpecCancel == Init /\ [][NextCancel]_vars

\* ------------------------------------------- a gateway that stops draining

\* The writer goroutine of the gateway connection has stopped (a failed write
\* ends it) or is stalled, and the outbound queue has filled up: from now on
\* a send on it cannot proceed.
OutboundStall(t) ==
    /\ Alive(t)
    /\ ~tstate[t].outboundFull
    /\ tstate' = [ tstate EXCEPT ![t].outboundFull = TRUE ]
    /\ UNCHANGED << codec, session, mq, qlog, disp, listeners, connections,
                    pendingDials, lsn, dials, conns, subs, opens, net >>

\* Transport.Dial up to its call of sendMixnetMessage: a fresh ConnectionID and
\* the pending dial registered.
DialBegin(t, addr, p) ==
    /\ Alive(t)
    /\ Len(dials) < MaxDials
    /\ LET d == Len(dials) + 1
       IN  /\ d \notin DOMAIN pendingDials[t]
           /\ pendingDials' = [ pendingDials EXCEPT ![t] = MapPut(@, d, d) ]
           /\ dials' = Append(dials,
                 [ t |-> t, remoteRecipient |-> addr, p |-> p, id |-> d,
                   resultCh |-> << >>, chClosed |-> FALSE, pc |-> "send",
                   conn |-> 0, tmp |-> 0, err |-> "" ])
    /\ UNCHANGED << codec, session, mq, qlog, tstate, disp, listeners,
                    connections, lsn, conns, subs, opens, net >>

\* The cases of sendMixnetMessage's select that can proceed: the send while the
\* outbound queue has room, ctx.Done once the transport's context is cancelled.
SendCases(t) ==
    (IF tstate[t].outboundFull THEN {} ELSE { TRUE })
        \cup (IF tstate[t].ctxDone THEN { FALSE } ELSE {})

\* Dial's sendMixnetMessage returns: the ConnectionRequest is queued and Dial
\* goes on to its select, or the send is abandoned and removePendingDial runs.
DialSend(d) ==
    /\ dials[d].pc = "send"
    /\ Alive(dials[d].t)
    /\ LET t == dials[d].t
       IN  \E ok \in SendCases(t) :
             IF ok
             THEN /\ net' = net \cup { Packet(dials[d].remoteRecipient,
                              ConnectionMessage("ConnectionRequest", LocalPeer(t),
                                                SelfRecipient(t), dials[d].id)) }
                  /\ dials' = [ dials EXCEPT ![d].pc = "select" ]
                  /\ pendingDials' = pendingDials
             ELSE /\ net' = net
                  /\ pendingDials' = [ pendingDials EXCEPT ![t] =
                                         removePendingDial(@, dials[d].id) ]
                  /\ dials' = [ dials EXCEPT ![d].pc = "done", ![d].err = "canceled",
                                  ![d].chClosed = @ \/ dials[d].id \in DOMAIN pendingDials[t] ]
    /\ UNCHANGED << codec, session, mq, qlog, tstate, disp, listeners,
                    connections, lsn, conns, subs, opens >>

\* The steps a Dial call takes by itself once it is in its select, the firing
\* of its handshake timeout included, and the Close it calls on a mismatch.
DialStep(d) ==
    \/ DialSend(d)
    \/ DialResult(d)
    \/ DialCloseReturn(d)
    \/ DialTimeoutFire(d, "deadline")
    \/ DialShutdownFire(d)
    \/ DialRemovePending(d)
    \/ \E c \in DOMAIN conns : dials[d].pc = "closing" /\ dials[d].tmp = c /\ ConnCloseRemove(c)
    \/ \E c \in DOMAIN conns : dials[d].pc = "closing" /\ dials[d].tmp = c /\ ConnCloseStreams(c)

\* The handshake when the gateway may stop draining the outbound queue: the
\* dispatcher cannot answer a ConnectionRequest while its queue is full.
NextBlocked ==
    \/ \E t \in Peers : OutboundStall(t)
    \/ \E t \in Peers : Listen(t)
    \/ \E t \in Peers, addr \in Recipients, p \in { NoPeer } \cup PeerIDs : DialBegin(t, addr, p)
    \/ \E d \in DOMAIN dials : DialStep(d)
    \/ \E d \in DOMAIN dials : DialTimeoutFire(d, "canceled")
    \/ \E t \in Peers, m \in net : SendCases(t) # {} /\ HandleConnectionRequest(t, m)
    \/ \E t \in Peers, m \in net : HandleConnectionResponse(t, m)
    \/ \E l \in DOMAIN lsn : Accept(l)
    \/ \E t \in Peers : TransportCancel(t)

\* A Dial call that can take a step eventually takes one: its goroutine is
\* scheduled and its handshake timer fires. Nothing obliges the gateway to
\* drain, the mixnet to deliver or the transport to be shut down.
SpecBlocked ==
    Init /\ [][NextBlocked]_vars /\ \A d \in 1..MaxDials : WF_vars(d \in DOMAIN dials /\ DialStep(d))

\* The handshake level for a caller that makes no Listen and no Dial call on a
\* transport once it has called Close on it.
NextShutdown ==
    \/ \E t \in Peers : tstate[t].closePc = 0 /\ Listen(t)
    \/ \E t \in Peers, addr \in Recipients, p \in { NoPeer } \cup PeerIDs :
          tstate[t].closePc = 0 /\ DialStart(t, addr, p)
    \/ \E d \in DOMAIN dials : DialResult(d)
    \/ \E d \in DOMAIN dials : DialCloseReturn(d)
    \/ \E d \in DOMAIN dials, err \in { "deadline", "canceled" } : DialTimeoutFire(d, err)
    \/ \E d \in DOMAIN dials : DialShutdownFire(d)
    \/ \E d \in DOMAIN dials : DialRemovePending(d)
    \/ \E t \in Peers, m \in net : HandleConnectionRequest(t, m)
    \/ \E t \in Peers, m \in net : HandleConnectionResponse(t, m)
    \/ \E t \in Peers : DispatcherExit(t)
    \/ \E l \in DOMAIN lsn : Accept(l)
    \/ \E l \in DOMAIN lsn : ListenerClose(l)
    \/ \E l \in DOMAIN lsn : ListenerRemove(l)
    \/ \E t \in Peers : TransportCancel(t)
    \/ \E t \in Peers : TransportCollect(t)
    \/ \E t \in Peers : TransportShutdownListeners(t)
    \/ \E t \in Peers, c \in DOMAIN conns : TransportCloseConn(t, c)
    \/ \E c \in DOMAIN conns : ConnClose(c)
    \/ \E c \in DOMAIN conns : ConnCloseRemove(c)
    \/ \E c \in DOMAIN conns : ConnCloseStreams(c)

SpecShutdown == Init /\ [][NextShutdown]_vars

\* ------------------------------------- OpenStream racing with Conn.Close

\* Conn.OpenStream, its first statement: the closed flag is loaded outside
\* streamsMu; a closed connection answers ErrReset at once.
OpenBegin(c) ==
    /\ Alive(conns[c].t)
    /\ conns[c].held
    /\ Len(opens) < MaxOpens
    /\ LET call(pc, err) ==
               [ conn |-> c, sid |-> Len(opens) + 1, stream |-> 0, readyClosed |-> FALSE,
                 pc |-> pc, err |-> err, returned |-> 0, acked |-> FALSE ]
       IN  opens' = Append(opens, IF ConnClosed(conns[c]) THEN call("done", "reset")
                                                         ELSE call("begin", ""))
    /\ UNCHANGED << codec, session, mq, qlog, tstate, disp, listeners,
                    connections, pendingDials, lsn, dials, conns, subs, net >>

\* Conn.OpenStream from newSubstream to its select: the pending open is
\* registered under streamsMu and the OpenRequest sent; a failed send deletes
\* the entry again.
OpenRegister(o) ==
    /\ opens[o].pc = "begin"
    /\ Alive(conns[opens[o].conn].t)
    /\ LET c == opens[o].conn
           s == Len(subs) + 1
       IN  \E ok \in SendOutcomes(conns[c].t) :
             /\ subs' = Append(subs, newSubstream(c, opens[o].sid))
             /\ net' = net \cup FrameSent(conns[c],
                          SubstreamMessage(opens[o].sid, "OpenRequest", << >>), ok)
             /\ conns' = [ conns EXCEPT ![c] =
                   [ sendSubstreamMessage(@, ok) EXCEPT !.pendingOutbound =
                       IF ok THEN MapPut(@, opens[o].sid, o) ELSE @ ] ]
             /\ opens' = [ opens EXCEPT ![o].stream = s,
                                        ![o].pc = IF ok THEN "select" ELSE "done",
                                        ![o].err = IF ok THEN "" ELSE "canceled" ]
    /\ UNCHANGED << codec, session, mq, qlog, tstate, disp, listeners,
                    connections, pendingDials, lsn, dials >>

\* One connection from A to B, one OpenStream call taken statement by
\* statement on either end, and Conn.Close called on either end.
NextTeardown ==
    \/ lsn = << >> /\ Listen("B")
    \/ dials = << >> /\ DialStart("A", SelfRecipient("B"), NoPeer)
    \/ \E d \in DOMAIN dials : DialResult(d)
    \/ \E t \in Peers, m \in net : HandleConnectionRequest(t, m)
    \/ \E t \in Peers, m \in net : HandleConnectionResponse(t, m)
    \/ \E l \in DOMAIN lsn : Accept(l)
    \/ \E t \in Peers, m \in net : DeliverTransport(t, m)
    \/ \E t \in Peers : HandleOpenRequest(t)
    \/ \E t \in Peers : HandleOpenResponse(t)
    \/ opens = << >> /\ \E c \in DOMAIN conns : OpenBegin(c)
    \/ \E o \in DOMAIN opens : OpenRegister(o)
    \/ \E o \in DOMAIN opens : OpenReady(o)
    \/ \E o \in DOMAIN opens : OpenCtxDone(o)
    \/ \E o \in DOMAIN opens : OpenCancelReturn(o)
    \/ \E o \in DOMAIN opens : OpenReset(o)
    \/ \E c \in DOMAIN conns : AcceptStream(c)
    \/ \E c \in DOMAIN conns : ConnClose(c)
    \/ \E c \in DOMAIN conns : ConnCloseRemove(c)
    \/ \E c \in DOMAIN conns : ConnCloseStreams(c)

SpecTeardown == Init /\ [][NextTeardown]_vars

\* ------------------------------ closeWithControl taken statement by statement

\* Substream.closeWithControl, its first statement: localClosed.Swap(true); a
\* call that finds the flag set returns at once.
CloseBegin(s, sendControl) ==
    /\ Alive(conns[subs[s].conn].t)
    /\ subs[s].held
    /\ subs[s].ccalls < MaxCloses
    /\ subs' = [ subs EXCEPT ![s] =
                   IF subs[s].localClosed
                   THEN [ @ EXCEPT !.ccalls = @ + 1 ]
                   ELSE [ @ EXCEPT !.ccalls = @ + 1, !.localClosed = TRUE,
                                   !.closing = IF sendControl THEN "control" ELSE "finish" ] ]
    /\ UNCHANGED << codec, session, mq, qlog, tstate, disp, listeners,
                    connections, pendingDials, lsn, dials, conns, opens, net >>

\* Conn.closeLocalStream: nothing on a closed connection, else the Close frame
\* is sent and the stream removed.
CloseControl(s) ==
    /\ Alive(conns[subs[s].conn].t)
    /\ subs[s].closing = "control"
    /\ LET c == subs[s].conn
       IN  IF ConnClosed(conns[c])
           THEN /\ subs' = [ subs EXCEPT ![s].closing = "finish" ]
                /\ UNCHANGED << conns, opens, net >>
           ELSE \E ok \in SendOutcomes(conns[c].t) :
                  /\ subs' = [ subs EXCEPT ![s].closing = "finish",
                                           ![s].closeFrames = @ + 1 ]
                  /\ net' = net \cup FrameSent(conns[c],
                               SubstreamMessage(subs[s].id, "Close", << >>), ok)
                  /\ conns' = [ conns EXCEPT ![c] =
                                  removeStream(sendSubstreamMessage(@, ok), subs[s].id) ]
                  /\ opens' = CloseReady(opens, ReadyClosedBy(conns[c], subs[s].id))
    /\ UNCHANGED << codec, session, mq, qlog, tstate, disp, listeners,
                    connections, pendingDials, lsn, dials >>

\* closeWithControl, its last statements: remoteClosed.Store(true) and the
\* inbound queue closed through channelOnce.
CloseFinish(s) ==
    /\ Alive(conns[subs[s].conn].t)
    /\ subs[s].closing = "finish"
    /\ subs' = [ subs EXCEPT ![s] =
                   closeInbound([ @ EXCEPT !.remoteClosed = TRUE, !.closing = "done" ]) ]
    /\ UNCHANGED << codec, session, mq, qlog, tstate, disp, listeners,
                    connections, pendingDials, lsn, dials, conns, opens, net >>

\* One connection from A to B with one substream opened on it, closed from
\* either end any number of times while Close frames arrive and while the
\* connection is closed.
NextClose ==
    \/ lsn = << >> /\ Listen("B")
    \/ dials = << >> /\ DialStart("A", SelfRecipient("B"), NoPeer)
    \/ \E d \in DOMAIN dials : DialResult(d)
    \/ \E t \in Peers, m \in net : HandleConnectionRequest(t, m)
    \/ \E t \in Peers, m \in net : HandleConnectionResponse(t, m)
    \/ \E l \in DOMAIN lsn : Accept(l)
    \/ \E t \in Peers, m \in net : DeliverTransport(t, m)
    \/ \E t \in Peers : HandleOpenRequest(t)
    \/ \E t \in Peers : HandleOpenResponse(t)
    \/ opens = << >> /\ \E c \in DOMAIN conns : OpenStart(c)
    \/ \E o \in DOMAIN opens : OpenReady(o)
    \/ \E c \in DOMAIN conns : AcceptStream(c)
    \/ \E t \in Peers : HandleClose(t)
    \/ \E s \in DOMAIN subs, sendControl \in BOOLEAN : CloseBegin(s, sendControl)
    \/ \E s \in DOMAIN subs : CloseControl(s)
    \/ \E s \in DOMAIN subs : CloseFinish(s)
    \/ \E c \in DOMAIN conns : ConnClose(c)
    \/ \E c \in DOMAIN conns : ConnCloseRemove(c)
    \/ \E c \in DOMAIN conns : ConnCloseStreams(c)

SpecClose == Init /\ [][NextClose]_vars

\* ------------------------------------------ parallel streams on a connection

\* One connection from A to B on which the dialing side makes its OpenStream
\* calls in parallel once Dial has returned; the accepting side accepts the
\* substreams, and both sides write and read on them.
NextEcho ==
    \/ lsn = << >> /\ Listen("B")
    \/ dials = << >> /\ DialStart("A", SelfRecipient("B"), NoPeer)
    \/ \E d \in DOMAIN dials : DialResult(d)
    \/ \E t \in Peers, m \in net : HandleConnectionRequest(t, m)
    \/ \E t \in Peers, m \in net : HandleConnectionResponse(t, m)
    \/ \E l \in DOMAIN lsn : Accept(l)
    \/ \E t \in Peers, m \in net : DeliverTransport(t, m)
    \/ \E t \in Peers : HandleOpenRequest(t)
    \/ \E t \in Peers : HandleOpenResponse(t)
    \/ \E t \in Peers : HandleData(t)
    \/ \E c \in DOMAIN conns : conns[c].t = "A" /\ OpenStart(c)
    \/ \E o \in DOMAIN opens : OpenReady(o)
    \/ \E c \in DOMAIN conns : AcceptStream(c)
    \/ \E s \in DOMAIN subs, len \in 1..MaxWriteLen : Write(s, len)
    \/ \E s \in DOMAIN subs, n \in 1..MaxReadLen : Read(s, n)

SpecEcho == Init /\ [][NextEcho]_vars

\* --------------------------------------------- a gateway session that fails

\* An I/O failure on the websocket of the gateway session of t: the writer
\* goroutine returns on its failed write, the reader goroutine on its failed
\* read, the websocket is closed and the reader closes the inbound queue.
GatewayFail(t) ==
    /\ Alive(t)
    /\ ~tstate[t].sessionFailed
    /\ tstate' = [ tstate EXCEPT ![t].sessionFailed = TRUE ]
    /\ UNCHANGED << codec, session, mq, qlog, disp, listeners, connections,
                    pendingDials, lsn, dials, conns, subs, opens, net >>

\* processInbound receives from the closed inbound queue (ok is false) and
\* returns.
DispatcherInboundClosed(t) ==
    /\ Alive(t)
    /\ disp[t].pc = "idle"
    /\ tstate[t].sessionFailed
    /\ disp' = [ disp EXCEPT ![t].pc = "stopped" ]
    /\ UNCHANGED << codec, session, mq, qlog, tstate, listeners, connections,
                    pendingDials, lsn, dials, conns, subs, opens, net >>

\* The handshake between transports whose gateway session may fail. Nobody
\* calls Close, and a transport whose session has failed is left to itself:
\* no Listen and no Dial is called on it, and its inbound queue is taken as
\* drained, so that its dispatcher has nothing left but to return.
NextGateway ==
    \/ \E t \in Peers : GatewayFail(t)
    \/ \E t \in Peers : DispatcherInboundClosed(t)
    \/ \E t \in Peers : ~tstate[t].sessionFailed /\ Listen(t)
    \/ \E t \in Peers, addr \in Recipients : \E p \in ExpectedPeers(addr) :
          ~tstate[t].sessionFailed /\ DialStart(t, addr, p)
    \/ \E d \in DOMAIN dials : DialResult(d)
    \/ \E d \in DOMAIN dials : DialTimeoutFire(d, "deadline")
    \/ \E d \in DOMAIN dials : DialRemovePending(d)
    \/ \E t \in Peers, m \in net : ~tstate[t].sessionFailed /\ HandleConnectionRequest(t, m)
    \/ \E t \in Peers, m \in net : ~tstate[t].sessionFailed /\ HandleConnectionResponse(t, m)
    \/ \E l \in DOMAIN lsn : Accept(l)

SpecGateway == Init /\ [][NextGateway]_vars

\* ------------------------------------------- message: Encode and Decode

\* The Go slice b[from:to].
Slice(b, from, to) == SubSeq(b, from + 1, to)

\* n bytes of value b, and the n bytes 1, 2, ..., n.
Fill(n, b) == [ i \in 1..n |-> b ]
Ramp(n) == [ i \in 1..n |-> i ]

\* A result with its error; a nil pointer is the empty tuple, a pointer to x
\* the tuple << x >>.
Failed(err) == [ err |-> err, val |-> << >> ]
Ok(x) == [ err |-> "", val |-> << x >> ]

\* Recipient.Bytes.
RecipientBytes(r) == r.ClientIdentity \o r.ClientEncryptionKey \o r.Gateway

\* RecipientFromBytes.
RecipientFromBytes(b) ==
    IF Len(b) # RecipientLength
    THEN Failed("recipient: invalid length")
    ELSE Ok([ ClientIdentity |-> Slice(b, 0, KeyLength),
              ClientEncryptionKey |-> Slice(b, KeyLength, 2 * KeyLength),
              Gateway |-> Slice(b, 2 * KeyLength, Len(b)) ])

\* binary.BigEndian.PutUint64, as the k low-order bytes of n.
RECURSIVE PutUint(_, _)
PutUint(n, k) == IF k = 0 THEN << >> ELSE Append(PutUint(n \div 256, k - 1), n % 256)

PutUint64(n) == PutUint(n, 8)

\* binary.BigEndian.Uint64.
RECURSIVE Uint64(_)
Uint64(b) == IF b = << >> THEN 0 ELSE Uint64(Slice(b, 0, Len(b) - 1)) * 256 + b[Len(b)]

\* peer.IDFromBytes: the bytes are kept when they are a multihash, a code
\* byte and a length byte followed by a digest of that length.
IDFromBytes(b) ==
    IF Len(b) >= 2 /\ b[2] = Len(b) - 2 THEN Ok(b) ELSE Failed("message: parse peer id")

\* An encodeSubstreamMessage that writes the tag before the SubstreamID.
encodeSubstreamMessageTagFirst(sm) == << sm.Type >> \o sm.ID \o sm.Data

\* encodeSubstreamMessage.
encodeSubstreamMessage(sm) == sm.ID \o << sm.Type >> \o sm.Data

\* decodeSubstreamMessage.
decodeSubstreamMessage(data) ==
    IF Len(data) < SubstreamIDLength + 1
    THEN Failed("message: substream payload too short")
    ELSE LET id      == Slice(data, 0, SubstreamIDLength)
             msgType == data[SubstreamIDLength + 1]
             payload == Slice(data, SubstreamIDLength + 1, Len(data))
         IN  IF msgType \in { SubstreamMessageOpenRequest, SubstreamMessageOpenResponse,
                              SubstreamMessageClose }
             THEN IF Len(payload) # 0
                  THEN Failed("message: unexpected payload for substream control message")
                  ELSE Ok([ ID |-> id, Type |-> msgType, Data |-> << >> ])
             ELSE IF msgType = SubstreamMessageData
             THEN Ok([ ID |-> id, Type |-> msgType, Data |-> payload ])
             ELSE Failed("message: unknown substream type")

\* encodeTransportMessage.
encodeTransportMessage(tm) ==
    PutUint64(tm.Nonce) \o tm.ID \o encodeSubstreamMessage(tm.Message)

\* decodeTransportMessage.
decodeTransportMessage(data) ==
    IF Len(data) < 8 + ConnectionIDLength + SubstreamIDLength + 1
    THEN Failed("message: transport payload too short")
    ELSE LET substream == decodeSubstreamMessage(Slice(data, 8 + ConnectionIDLength, Len(data)))
         IN  IF substream.err # ""
             THEN Failed(substream.err)
             ELSE Ok([ Nonce |-> Uint64(Slice(data, 0, 8)),
                       Message |-> substream.val[1],
                       ID |-> Slice(data, 8, 8 + ConnectionIDLength) ])

\* encodeConnectionMessage.
encodeConnectionMessage(cm) ==
    LET flag           == IF cm.Recipient # << >> THEN 1 ELSE 0
        recipientBytes == IF cm.Recipient # << >> THEN RecipientBytes(cm.Recipient[1])
                                                  ELSE << >>
    IN  cm.ID \o << flag >> \o recipientBytes \o cm.PeerID

\* decodeConnectionMessage.
decodeConnectionMessage(data) ==
    IF Len(data) < ConnectionIDLength + 1
    THEN Failed("message: connection payload too short")
    ELSE LET id     == Slice(data, 0, ConnectionIDLength)
             flag   == data[ConnectionIDLength + 1]
             first  == ConnectionIDLength + 1
             cursor == IF flag = 1 THEN first + RecipientLength ELSE first
         IN  IF flag = 1 /\ Len(data) < first + RecipientLength
             THEN Failed("message: connection recipient truncated")
             ELSE IF flag # 1 /\ flag # 0
             THEN Failed("message: invalid recipient flag")
             ELSE IF Len(data) <= cursor
             THEN Failed("message: missing peer id bytes")
             ELSE LET peerID == IDFromBytes(Slice(data, cursor, Len(data)))
                  IN  IF peerID.err # ""
                      THEN Failed(peerID.err)
                      ELSE Ok([ PeerID |-> peerID.val[1],
                                Recipient |->
                                    IF flag = 1
                                    THEN RecipientFromBytes(Slice(data, first, cursor)).val
                                    ELSE << >>,
                                ID |-> id ])

\* Encode of a message that is not nil.
Encode(msg) ==
    IF msg.Type \in { MessageTypeConnectionRequest, MessageTypeConnectionResponse }
    THEN IF msg.Connection = << >>
         THEN Failed("message: missing connection payload")
         ELSE Ok(<< msg.Type >> \o encodeConnectionMessage(msg.Connection[1]))
    ELSE IF msg.Type = MessageTypeTransport
    THEN IF msg.Transport = << >>
         THEN Failed("message: missing transport payload")
         ELSE Ok(<< msg.Type >> \o encodeTransportMessage(msg.Transport[1]))
    ELSE Failed("message: unknown type")

\* Decode.
Decode(data) ==
    IF Len(data) < 1
    THEN Failed("message: decode short buffer")
    ELSE LET msgType == data[1]
             payload == Slice(data, 1, Len(data))
         IN  IF msgType \in { MessageTypeConnectionRequest, MessageTypeConnectionResponse }
             THEN LET cm == decodeConnectionMessage(payload)
                  IN  IF cm.err # ""
                      THEN Failed(cm.err)
                      ELSE Ok([ Type |-> msgType, Connection |-> cm.val, Transport |-> << >> ])
             ELSE IF msgType = MessageTypeTransport
             THEN LET tm == decodeTransportMessage(payload)
                  IN  IF tm.err # ""
                      THEN Failed(tm.err)
                      ELSE Ok([ Type |-> msgType, Connection |-> << >>, Transport |-> tm.val ])
             ELSE Failed("message: unknown type")

\* The identifiers, recipients, peer IDs, nonces and payloads the codec is
\* tried on.
WireIDs == { Fill(ConnectionIDLength, 0), Fill(ConnectionIDLength, 255),
             Ramp(ConnectionIDLength) }

WireRecipients ==
    { [ ClientIdentity |-> Fill(KeyLength, a), ClientEncryptionKey |-> Ramp(KeyLength),
        Gateway |-> Fill(KeyLength, b) ] : a \in { 0, 1 }, b \in { 1, 255 } }

WirePeerIDs == { << 0, 2, 1, 0 >>, << 18, 3, 0, 1, 255 >> }

WireNonces == { 0, 1, 255, 256, 65537, 2147483647 }

RECURSIVE WirePayloads(_)
WirePayloads(n) ==
    IF n = 0 THEN { << >> }
    ELSE WirePayloads(n - 1)
            \cup { Append(p, b) : p \in { q \in WirePayloads(n - 1) : Len(q) = n - 1 },
                                  b \in { 0, 3, 255 } }

\* The well-formed messages: a ConnectionRequest with its recipient, a
\* ConnectionResponse without, a Transport message whose substream message
\* carries a payload only under the Data tag.
WellFormed ==
    { [ Type |-> MessageTypeConnectionRequest,
        Connection |-> << [ PeerID |-> p, Recipient |-> << r >>, ID |-> id ] >>,
        Transport |-> << >> ] : p \in WirePeerIDs, r \in WireRecipients, id \in WireIDs }
    \cup
    { [ Type |-> MessageTypeConnectionResponse,
        Connection |-> << [ PeerID |-> p, Recipient |-> << >>, ID |-> id ] >>,
        Transport |-> << >> ] : p \in WirePeerIDs, id \in WireIDs }
    \cup
    { [ Type |-> MessageTypeTransport, Connection |-> << >>,
        Transport |-> << [ Nonce |-> n, Message |-> sm, ID |-> id ] >> ] :
          n \in WireNonces, id \in WireIDs,
          sm \in { [ ID |-> sid, Type |-> SubstreamMessageData, Data |-> d ] :
                     sid \in WireIDs, d \in WirePayloads(MaxPayloadLen) }
                 \cup { [ ID |-> sid, Type |-> ty, Data |-> << >> ] :
                          sid \in WireIDs,
                          ty \in { SubstreamMessageOpenRequest, SubstreamMessageOpenResponse,
                                   SubstreamMessageClose } } }

\* A well-formed message is given to the codec.
CInit == codec \in { [ pc |-> "msg", msg |-> << m >>, wire |-> << >>, back |-> << >> ] :
                       m \in WellFormed }

\* Encode is called on the message.
CodecEncode ==
    /\ codec.pc = "msg"
    /\ codec' = [ codec EXCEPT !.pc = "wire", !.wire = Encode(codec.msg[1]) ]
    /\ UNCHANGED << session, qvars, tvars >>

\* Decode is called on the bytes Encode returned.
CodecDecode ==
    /\ codec.pc = "wire"
    /\ codec.wire.err = ""
    /\ codec' = [ codec EXCEPT !.pc = "back", !.back = Decode(codec.wire.val[1]) ]
    /\ UNCHANGED << session, qvars, tvars >>

NextCodec == CodecEncode \/ CodecDecode

\* The queue and the transports stay as constructed beside the codec.
InitCodec == QInit /\ TInit /\ CInit /\ session = SIdle

SpecCodec == InitCodec /\ [][NextCodec]_vars

\* ------------------------------------------------ repeated ConnectionRequests

\* The mixnet gives the dispatcher of t one more ConnectionRequest carrying the
\* ConnectionID of an indexed connection: the request that created it, or one
\* for a connection this side dialed, delivered by processInbound like any
\* other message.
DuplicateRequest(t, c) ==
    /\ Alive(t)
    /\ tstate[t].duplicates < MaxDuplicates
    /\ conns[c].t = t
    /\ conns[c].id \in DOMAIN connections[t]
    /\ connections[t][conns[c].id] = c
    /\ LET m == Packet(SelfRecipient(t),
                       ConnectionMessage("ConnectionRequest", conns[c].remotePeer,
                                         conns[c].remoteRecipient, conns[c].id))
       IN  /\ m \notin net
           /\ net' = net \cup { m }
    /\ tstate' = [ tstate EXCEPT ![t].duplicates = @ + 1 ]
    /\ UNCHANGED << codec, session, mq, qlog, disp, listeners, connections,
                    pendingDials, lsn, dials, conns, subs, opens >>

\* One connection from A to B with substreams opened on it, while the mixnet
\* repeats ConnectionRequests.
NextDuplicate ==
    \/ lsn = << >> /\ Listen("B")
    \/ dials = << >> /\ DialStart("A", SelfRecipient("B"), NoPeer)
    \/ \E d \in DOMAIN dials : DialResult(d)
    \/ \E t \in Peers, m \in net : HandleConnectionRequest(t, m)
    \/ \E t \in Peers, m \in net : HandleConnectionResponse(t, m)
    \/ \E l \in DOMAIN lsn : Accept(l)
    \/ \E t \in Peers, c \in DOMAIN conns : DuplicateRequest(t, c)
    \/ \E t \in Peers, m \in net : DeliverTransport(t, m)
    \/ \E t \in Peers : HandleOpenRequest(t)
    \/ \E t \in Peers : HandleOpenResponse(t)
    \/ \E c \in DOMAIN conns : OpenStart(c)
    \/ \E o \in DOMAIN opens : OpenReady(o)
    \/ \E c \in DOMAIN conns : AcceptStream(c)

SpecDuplicate == Init /\ [][NextDuplicate]_vars

\* ------------------------------------------- several listeners on a transport

\* The state after Listen has been called MaxRegistered times on B and on
\* nothing else.
InitNotify ==
    /\ QInit
    /\ codec = CIdle
    /\ session = SIdle
    /\ tstate = [ t \in Peers |-> [ ctxDone |-> FALSE, panicked |-> FALSE, closePc |-> 0,
                                    toShutdown |-> {}, toClose |-> {},
                                    outboundFull |-> FALSE, sessionFailed |-> FALSE,
                                    duplicates |-> 0 ] ]
    /\ disp = [ t \in Peers |-> Idle ]
    /\ lsn = [ l \in 1..MaxRegistered |->
                [ t |-> "B", incoming |-> << >>, closed |-> FALSE,
                  closePc |-> 0, accepted |-> << >> ] ]
    /\ listeners = [ t \in Peers |-> IF t = "B" THEN 1..MaxRegistered ELSE {} ]
    /\ connections = [ t \in Peers |-> << >> ]
    /\ pendingDials = [ t \in Peers |-> << >> ]
    /\ dials = << >>
    /\ conns = << >>
    /\ subs = << >>
    /\ opens = << >>
    /\ net = {}

\* A dials B, where several listeners accept, and substreams are opened on
\* the connection.
NextNotify ==
    \/ \E p \in ExpectedPeers(SelfRecipient("B")) : DialStart("A", SelfRecipient("B"), p)
    \/ \E d \in DOMAIN dials : DialResult(d)
    \/ \E t \in Peers, m \in net : HandleConnectionRequest(t, m)
    \/ \E t \in Peers, m \in net : HandleConnectionResponse(t, m)
    \/ \E l \in DOMAIN lsn : Accept(l)
    \/ \E t \in Peers, m \in net : DeliverTransport(t, m)
    \/ \E t \in Peers : HandleOpenRequest(t)
    \/ \E t \in Peers : HandleOpenResponse(t)
    \/ \E c \in DOMAIN conns : OpenStart(c)
    \/ \E o \in DOMAIN opens : OpenReady(o)
    \/ \E c \in DOMAIN conns : AcceptStream(c)

SpecNotify == InitNotify /\ [][NextNotify]_vars

\* ------------------------------------------------ a SubstreamID used again

\* The remote end of a connection sends one more OpenRequest carrying the
\* SubstreamID of a substream it has opened before, under its next nonce: a
\* frame like any other for Conn.handleTransportMessage at the receiver.
RepeatOpenRequest(c, o) ==
    /\ Alive(conns[c].t)
    /\ tstate[conns[c].t].duplicates < MaxDuplicates
    /\ ~ConnClosed(conns[c])
    /\ opens[o].conn = c
    /\ opens[o].acked
    /\ net' = net \cup FrameSent(conns[c],
                   SubstreamMessage(opens[o].sid, "OpenRequest", << >>), TRUE)
    /\ conns' = [ conns EXCEPT ![c] = sendSubstreamMessage(@, TRUE) ]
    /\ tstate' = [ tstate EXCEPT ![conns[c].t].duplicates = @ + 1 ]
    /\ UNCHANGED << codec, session, mq, qlog, disp, listeners, connections,
                    pendingDials, lsn, dials, subs, opens >>

\* One connection from A to B and the substreams on it, where an end may use
\* a SubstreamID again.
NextRepeat ==
    \/ lsn = << >> /\ Listen("B")
    \/ dials = << >> /\ DialStart("A", SelfRecipient("B"), NoPeer)
    \/ \E d \in DOMAIN dials : DialResult(d)
    \/ \E t \in Peers, m \in net : HandleConnectionRequest(t, m)
    \/ \E t \in Peers, m \in net : HandleConnectionResponse(t, m)
    \/ \E l \in DOMAIN lsn : Accept(l)
    \/ \E t \in Peers, m \in net : DeliverTransport(t, m)
    \/ \E t \in Peers : HandleOpenRequest(t)
    \/ \E t \in Peers : HandleOpenResponse(t)
    \/ \E t \in Peers : HandleClose(t)
    \/ opens = << >> /\ \E c \in DOMAIN conns : OpenStart(c)
    \/ \E o \in DOMAIN opens : OpenReady(o)
    \/ \E c \in DOMAIN conns : AcceptStream(c)
    \/ \E s \in DOMAIN subs : closeWithControl(s, TRUE)
    \/ \E c \in DOMAIN conns, o \in DOMAIN opens : RepeatOpenRequest(c, o)

SpecRepeat == Init /\ [][NextRepeat]_vars

\* ------------------------------------------------------ the gateway session

\* The capacities of the queues mixnet.Initialize makes.
InboundCap == 32
OutboundCap == 32

\* What a frame read from the websocket is: the SelfAddress response, a
\* Received frame whose payload decodes, a Received frame whose payload does
\* not, or an Error frame.
FrameKinds == { "SelfAddress", "Received", "Malformed", "Error" }

\* Initialize has dialed the gateway and written the SelfAddressRequest.
SStart == [ SIdle EXCEPT !.pc = "startup" ]

\* Initialize has returned: the SelfAddress was the first frame, both
\* goroutines run, the queues are empty.
SRunning == [ SIdle EXCEPT !.pc = "running", !.seen = 1 ]

\* select { case inbound <- m: default: log } : the message is queued if the
\* queue has room and dropped otherwise.
offer(ss, f) ==
    IF Len(ss.inbound) < InboundCap
    THEN [ ss EXCEPT !.inbound = Append(@, f) ]
    ELSE [ ss EXCEPT !.dropped = @ \cup { f } ]

\* One turn of the self-address loop of Initialize that reads a frame: the
\* SelfAddress ends the loop and the goroutines are started, a Received frame
\* is decoded and offered to the inbound queue, anything else is logged.
StartupRead(kind) ==
    /\ session.pc = "startup"
    /\ ~session.wireDown
    /\ session.seen < MaxFrames
    /\ kind \in { "Malformed", "Error" } => session.skipped < MaxSkipped
    /\ LET f    == session.seen + 1
           read == [ session EXCEPT !.seen = f ]
       IN  session' =
             CASE kind = "SelfAddress" -> [ read EXCEPT !.pc = "running" ]
               [] kind = "Received"    -> offer([ read EXCEPT !.pre = @ \cup { f } ], f)
               [] OTHER                -> [ read EXCEPT !.skipped = @ + 1 ]
    /\ UNCHANGED << codec, qvars, tvars >>

\* The self-address loop finds the context done, or ReadMessage fails: the
\* websocket is closed and Initialize returns the error.
StartupFail ==
    /\ session.pc = "startup"
    /\ session.ctxDone \/ session.wireDown
    /\ session' = [ session EXCEPT !.pc = "failed", !.connClosed = TRUE ]
    /\ UNCHANGED << codec, qvars, tvars >>

\* The reader goroutine at the top of its loop: isContextDone. When it
\* returns, the deferred function first runs closer.
ReaderTop ==
    /\ session.pc = "running"
    /\ session.reader = "top"
    /\ session' = IF session.ctxDone
                  THEN [ session EXCEPT !.reader = "closing", !.connClosed = TRUE ]
                  ELSE [ session EXCEPT !.reader = "read" ]
    /\ UNCHANGED << codec, qvars, tvars >>

\* The reader goroutine's ReadMessage returns a frame: a Received frame is
\* decoded and offered to the inbound queue, anything else is logged.
ReaderRead(kind) ==
    /\ session.pc = "running"
    /\ session.reader = "read"
    /\ ~session.wireDown
    /\ ~session.connClosed
    /\ session.seen < MaxFrames
    /\ kind # "Received" => session.skipped < MaxSkipped
    /\ LET f    == session.seen + 1
           read == [ session EXCEPT !.seen = f, !.reader = "top" ]
       IN  session' = IF kind = "Received"
                      THEN offer(read, f)
                      ELSE [ read EXCEPT !.skipped = @ + 1 ]
    /\ UNCHANGED << codec, qvars, tvars >>

\* The reader goroutine's ReadMessage fails, because the gateway is gone or
\* because closer has closed the websocket: the goroutine returns and its
\* deferred function runs closer.
ReaderReadError ==
    /\ session.pc = "running"
    /\ session.reader = "read"
    /\ session.wireDown \/ session.connClosed
    /\ session' = [ session EXCEPT !.reader = "closing", !.connClosed = TRUE ]
    /\ UNCHANGED << codec, qvars, tvars >>

\* The reader goroutine's deferred function, after closer: close(inbound).
ReaderCloseInbound ==
    /\ session.reader = "closing"
    /\ session' = [ session EXCEPT !.reader = "done", !.inboundClosed = TRUE ]
    /\ UNCHANGED << codec, qvars, tvars >>

\* The writer goroutine's select takes ctx.Done: it returns, and closer runs.
WriterCtxDone ==
    /\ session.pc = "running"
    /\ session.writer = "select"
    /\ session.ctxDone
    /\ session' = [ session EXCEPT !.writer = "done", !.connClosed = TRUE ]
    /\ UNCHANGED << codec, qvars, tvars >>

\* The writer goroutine's select takes a message from the outbound queue,
\* encodes it and writes it; a failed write ends the goroutine, and closer
\* runs. (The messages the transport builds always encode.)
WriterTake ==
    /\ session.pc = "running"
    /\ session.writer = "select"
    /\ session.outbound > 0
    /\ session' = IF session.wireDown \/ session.connClosed
                  THEN [ session EXCEPT !.outbound = @ - 1, !.writer = "done",
                                        !.connClosed = TRUE ]
                  ELSE [ session EXCEPT !.outbound = @ - 1, !.written = @ + 1 ]
    /\ UNCHANGED << codec, qvars, tvars >>

\* A caller of the session puts a message on the outbound queue
\* (Transport.sendMixnetMessage).
SendOutbound ==
    /\ session.pc = "running"
    /\ session.sends < MaxOutbound
    /\ session.outbound < OutboundCap
    /\ session' = [ session EXCEPT !.outbound = @ + 1, !.sends = @ + 1 ]
    /\ UNCHANGED << codec, qvars, tvars >>

\* The context given to Initialize is cancelled.
SessionCancel ==
    /\ session.pc \in { "startup", "running" }
    /\ ~session.ctxDone
    /\ session' = [ session EXCEPT !.ctxDone = TRUE ]
    /\ UNCHANGED << codec, qvars, tvars >>

\* The gateway closes the websocket or the network fails: reads and writes
\* return errors from now on.
WireFail ==
    /\ session.pc \in { "startup", "running" }
    /\ ~session.wireDown
    /\ session' = [ session EXCEPT !.wireDown = TRUE ]
    /\ UNCHANGED << codec, qvars, tvars >>

\* Transport.processInbound receives from the inbound queue; a closed queue
\* still yields what it holds, and then ends the dispatcher.
SessionDispatch ==
    /\ session.pc = "running"
    /\ session.dispatcher = "run"
    /\ IF session.inbound # << >>
       THEN session' = [ session EXCEPT !.inbound = Tail(@),
                                        !.delivered = Append(@, Head(session.inbound)) ]
       ELSE /\ session.inboundClosed
            /\ session' = [ session EXCEPT !.dispatcher = "done" ]
    /\ UNCHANGED << codec, qvars, tvars >>

\* What the two goroutines can do without a new frame, a new outbound
\* message, a cancellation or a failure arriving.
SessionOwnStep ==
    \/ ReaderTop
    \/ ReaderReadError
    \/ ReaderCloseInbound
    \/ WriterCtxDone
    \/ WriterTake

InitStartup == QInit /\ TInit /\ codec = CIdle /\ session = SStart

\* Session startup and the reader that follows it, with the dispatcher
\* receiving from the queue once Initialize has returned it; the context may
\* be cancelled and the websocket may fail.
NextStartup ==
    \/ \E kind \in FrameKinds : StartupRead(kind)
    \/ StartupFail
    \/ ReaderTop
    \/ \E kind \in FrameKinds : ReaderRead(kind)
    \/ ReaderReadError
    \/ ReaderCloseInbound
    \/ SessionCancel
    \/ WireFail
    \/ SessionDispatch

SpecStartup == InitStartup /\ [][NextStartup]_vars

InitSession == QInit /\ TInit /\ codec = CIdle /\ session = SRunning

\* A running session: frames arrive, callers send, and the context may be
\* cancelled or the websocket may fail.
NextSession ==
    \/ ReaderTop
    \/ \E kind \in FrameKinds : session.seen <= MaxSteadyFrames /\ ReaderRead(kind)
    \/ ReaderReadError
    \/ ReaderCloseInbound
    \/ WriterCtxDone
    \/ WriterTake
    \/ SendOutbound
    \/ SessionCancel
    \/ WireFail
    \/ SessionDispatch

SpecSession == InitSession /\ [][NextSession]_vars

\* ------------------------------------------------ a reader that never reads

\* The substream objects with SubstreamID sid at transport t.
EndsAt(t, sid) == { s \in DOMAIN subs : subs[s].id = sid /\ conns[subs[s].conn].t = t }

\* No frame of a connection of t is on its way or waiting in a reorder queue.
Settled(t) ==
    /\ \A m \in Inbox(t) : m.msg.Type # "Transport"
    /\ \A c \in DOMAIN conns : conns[c].t = t => conns[c].queue.nonces = << >>

\* One connection from A to B on which A opens two substreams. A writes to the
\* first, one byte at a time and each frame after the one before has arrived,
\* and nobody reads it at B; A writes once to the second, which is read at B.
NextStall ==
    \/ lsn = << >> /\ Listen("B")
    \/ dials = << >> /\ DialStart("A", SelfRecipient("B"), NoPeer)
    \/ \E d \in DOMAIN dials : DialResult(d)
    \/ \E t \in Peers, m \in net : HandleConnectionRequest(t, m)
    \/ \E t \in Peers, m \in net : HandleConnectionResponse(t, m)
    \/ \E l \in DOMAIN lsn : Accept(l)
    \/ \E t \in Peers, m \in net : DeliverTransport(t, m)
    \/ \E t \in Peers : HandleOpenRequest(t)
    \/ \E t \in Peers : HandleOpenResponse(t)
    \/ \E t \in Peers : HandleData(t)
    \/ \E c \in DOMAIN conns : conns[c].t = "A" /\ Settled("B") /\ OpenStart(c)
    \/ \E o \in DOMAIN opens : OpenReady(o)
    \/ \E c \in DOMAIN conns : AcceptStream(c)
    \/ \E s \in EndsAt("A", 1) :
          subs[s].wcalls < MaxStallWrites /\ Settled("B") /\ WriteFrame(s, 1)
    \/ \E s \in EndsAt("A", 2) : subs[s].wcalls < 1 /\ WriteFrame(s, 1)
    \/ \E s \in EndsAt("B", 2) : Read(s, 1)

\* Every goroutine is scheduled and the mixnet delivers.
SpecStall == Init /\ [][NextStall]_vars /\ WF_vars(NextStall)

\* ------------------------------------------ every close racing every message

\* One listener, one Dial and one OpenStream call while everything that closes
\* a signalling channel may run: Transport.Close, Conn.Close, listener.Close,
\* the substreams' Close and Reset, the handshake timeout, a cancelled
\* OpenStream, and the ConnectionResponse, OpenResponse and Close frames.
NextSignals ==
    \/ lsn = << >> /\ tstate["B"].closePc = 0 /\ Listen("B")
    \/ dials = << >> /\ tstate["A"].closePc = 0
          /\ DialStart("A", SelfRecipient("B"), NoPeer)
    \/ \E d \in DOMAIN dials : DialResult(d)
    \/ \E d \in DOMAIN dials : DialTimeoutFire(d, "deadline")
    \/ \E d \in DOMAIN dials : DialRemovePending(d)
    \/ \E t \in Peers, m \in net : HandleConnectionRequest(t, m)
    \/ \E t \in Peers, m \in net : HandleConnectionResponse(t, m)
    \/ \E l \in DOMAIN lsn : Accept(l)
    \/ \E l \in DOMAIN lsn : ListenerClose(l)
    \/ \E l \in DOMAIN lsn : ListenerRemove(l)
    \/ \E t \in Peers : TransportCancel(t)
    \/ \E t \in Peers : TransportCollect(t)
    \/ \E t \in Peers : TransportShutdownListeners(t)
    \/ \E t \in Peers, c \in DOMAIN conns : TransportCloseConn(t, c)
    \/ \E c \in DOMAIN conns : ConnClose(c)
    \/ \E c \in DOMAIN conns : ConnCloseRemove(c)
    \/ \E c \in DOMAIN conns : ConnCloseStreams(c)
    \/ \E t \in Peers, m \in net : DeliverTransport(t, m)
    \/ \E t \in Peers : HandleOpenRequest(t)
    \/ \E t \in Peers : HandleOpenResponse(t)
    \/ \E t \in Peers : HandleClose(t)
    \/ opens = << >> /\ \E c \in DOMAIN conns : conns[c].t = "A" /\ OpenStart(c)
    \/ \E o \in DOMAIN opens : OpenReady(o)
    \/ \E o \in DOMAIN opens : OpenCtxDone(o)
    \/ \E o \in DOMAIN opens : OpenCancelReturn(o)
    \/ \E o \in DOMAIN opens : OpenReset(o)
    \/ \E c \in DOMAIN conns : AcceptStream(c)
    \/ \E s \in DOMAIN subs, sendControl \in BOOLEAN : closeWithControl(s, sendControl)

SpecSignals == Init /\ [][NextSignals]_vars

\* ---------------------------------------------------------------- claims

ReleasedNonces == [ i \in DOMAIN qlog.released |-> qlog.released[i].Nonce ]

\* C3: for a queue armed once (never reset), after any sequence of TryPush and
\* Pop calls with arbitrary nonces, repeats included, the frames released so
\* far by TryPush or Pop carry, in release order, exactly the nonces 1, 2, ..., k.
C3_ReleaseInNonceOrder ==
    qlog.resets = 0 => ReleasedNonces = Iota(Len(qlog.released))

\* A repeated nonce and an out-of-order nonce were pushed, and frames were
\* released by TryPush as well as by Pop.
C3_Witness ==
    /\ qlog.resets = 0
    /\ Len(qlog.released) >= 3
    /\ \E i, j \in DOMAIN qlog.pushed : i < j /\ qlog.pushed[i] = qlog.pushed[j]
    /\ qlog.pushed[1] > 1
    /\ qlog.armedAt = 0

IsPermutation(s) == Range(s) = 1..Len(s)

\* C4: when a permutation of 1..N has been pushed one at a time into a queue
\* armed beforehand and Pop yields nothing more (Pop called in between or only
\* at the end), the frames released by TryPush and Pop are exactly 1..N, each
\* once, and nothing is left buffered.
C4_PermutationReleased ==
    ( /\ qlog.resets = 0
      /\ qlog.armedAt = 0
      /\ IsPermutation(qlog.pushed)
      /\ Pop(mq).ready = << >> )
    => /\ ReleasedNonces = Iota(Len(qlog.pushed))
       /\ mq.nonces = << >>
       /\ DOMAIN mq.pending = {}

\* The permutation 3, 2, 1 or longer, starting out of order, fully released.
C4_Witness ==
    /\ qlog.resets = 0
    /\ qlog.armedAt = 0
    /\ IsPermutation(qlog.pushed)
    /\ Len(qlog.pushed) >= 3
    /\ qlog.pushed[1] = Len(qlog.pushed)
    /\ ReleasedNonces = Iota(Len(qlog.pushed))
    /\ mq.nonces = << >>

\* The substream objects at the other end of substream object s: same
\* SubstreamID, on the connection with the same ConnectionID of the other
\* transport.
RemoteEnds(s) ==
    { r \in DOMAIN subs :
        /\ subs[r].id = subs[s].id
        /\ conns[subs[r].conn].id = conns[subs[s].conn].id
        /\ conns[subs[r].conn].t # conns[subs[s].conn].t }

\* C1: on every substream the bytes returned by the successive Reads are a
\* prefix of the bytes passed to Write on the remote end, in write order: the
\* k-th byte read is the k-th byte written there.
C1_ReadsArePrefixOfWrites ==
    \A s \in DOMAIN subs : \A k \in DOMAIN subs[s].rlog :
        /\ subs[s].rlog[k].w \in RemoteEnds(s)
        /\ subs[s].rlog[k].pos = k

\* Nothing is in flight or left to be picked up: the mixnet has delivered
\* everything, the dispatchers are idle, every reader has read what was queued
\* for it, every substream and every OpenStream result has been taken.
Quiescent ==
    /\ net = {}
    /\ \A t \in Peers : disp[t].pc = "idle"
    /\ \A s \in DOMAIN subs : subs[s].inbound = << >> /\ subs[s].buffer = << >>
    /\ \A c \in DOMAIN conns : conns[c].inboundSubstreams = << >>
    /\ \A o \in DOMAIN opens : opens[o].pc = "select" => ~opens[o].readyClosed

\* C2: once the mixnet has delivered every payload and the readers have read
\* all they can, every byte written on a substream its writer holds has been
\* returned by Read at the other end, whatever the order of delivery.
C2_EveryWrittenFrameIsRead ==
    Quiescent =>
        \A s \in DOMAIN subs :
            (subs[s].held /\ subs[s].wcount > 0) =>
                \E r \in RemoteEnds(s) : Len(subs[r].rlog) = subs[s].wcount

\* C5: on a transport that is not being shut down every live (not closed)
\* connection is the one indexed under its ConnectionID, so that no two live
\* connections share a ConnectionID.
C5_LiveConnectionsIndexedOnce ==
    \A c \in DOMAIN conns :
        (conns[c].closePc = 0 /\ tstate[conns[c].t].closePc = 0) =>
            /\ conns[c].id \in DOMAIN connections[conns[c].t]
            /\ connections[conns[c].t][conns[c].id] = c

\* C6: no ConnectionID is at once a key of a transport's pending-dial table
\* and the ID of a live connection of that transport.
C6_PendingDialAndLiveConnectionDisjoint ==
    \A c \in DOMAIN conns :
        conns[c].closePc = 0 => conns[c].id \notin DOMAIN pendingDials[conns[c].t]

\* C7: the K transport frames of a connection handed to the gateway carry
\* exactly the nonces 1..K, none skipped and none used twice.
C7_HandedNoncesAreOneToK ==
    \A c \in DOMAIN conns :
        /\ Range(conns[c].sent) = 1..Len(conns[c].sent)
        /\ \A i, j \in DOMAIN conns[c].sent : i # j => conns[c].sent[i] # conns[c].sent[j]

\* The transport a Dial call addresses.
Remote(d) == CHOOSE t \in Peers : SelfRecipient(t) = dials[d].remoteRecipient

\* The ConnectionRequest of a Dial call is in the mixnet while a listener is
\* registered on the transport it is addressed to.
DialUnderWay(d) ==
    /\ d \in DOMAIN dials
    /\ \E m \in net : m.msg.Type = "ConnectionRequest" /\ m.msg.ID = dials[d].id
    /\ listeners[Remote(d)] # {}

\* Dial has returned a connection with the identities and address of the claim.
DialReturned(d) ==
    /\ d \in DOMAIN dials
    /\ dials[d].pc = "done"
    /\ dials[d].conn # 0
    /\ LET c == conns[dials[d].conn]
       IN  /\ c.id = dials[d].id
           /\ c.localPeer = LocalPeer(dials[d].t)
           /\ c.remotePeer = LocalPeer(Remote(d))
           /\ c.remoteRecipient = dials[d].remoteRecipient

\* Accept on a listener of the dialed transport has returned a connection with
\* the ConnectionID of the dial whose remote peer is the dialer.
AcceptReturned(d) ==
    /\ d \in DOMAIN dials
    /\ \E l \in DOMAIN lsn :
         /\ lsn[l].t = Remote(d)
         /\ \E i \in DOMAIN lsn[l].accepted :
              /\ conns[lsn[l].accepted[i]].id = dials[d].id
              /\ conns[lsn[l].accepted[i]].remotePeer = LocalPeer(dials[d].t)
              /\ conns[lsn[l].accepted[i]].t = Remote(d)

\* C8: when the ConnectionRequest of a Dial is under way to a transport with a
\* registered listener and request and response are delivered, Dial eventually
\* returns a connection whose local peer is the dialer, whose remote peer is
\* the answering transport's identity and whose remote address is the dialed
\* address, and Accept on the remote listener returns a connection with the
\* same ConnectionID whose remote peer is the dialer.
C8_DialAndAcceptReturn ==
    \A d \in 1..MaxDials : DialUnderWay(d) ~> (DialReturned(d) /\ AcceptReturned(d))

\* A Dial to the other transport has returned and the connection was accepted.
C8_Witness ==
    \E d \in DOMAIN dials :
        /\ Remote(d) # dials[d].t
        /\ DialReturned(d)
        /\ AcceptReturned(d)

\* C9: OpenStream returns a substream only if an OpenResponse for the
\* SubstreamID it generated has been processed.
C9_StreamReturnedOnlyAfterOpenResponse ==
    \A o \in DOMAIN opens : opens[o].returned # 0 => opens[o].acked

\* Dial has returned the error of the handshake timeout or of the caller's
\* context.
TimedOut(d) == dials[d].pc = "done" /\ dials[d].err \in { "deadline", "canceled" }

\* C10: a Dial that returned because the handshake timeout or the caller's
\* context fired returned no connection and its ConnectionID is no key of the
\* pending-dial table, and processing a ConnectionResponse for that
\* ConnectionID afterwards creates no connection and indexes none.
C10_TimedOutDialLeavesNothing ==
    /\ [](\A d \in DOMAIN dials :
            TimedOut(d) => /\ dials[d].conn = 0
                           /\ dials[d].id \notin DOMAIN pendingDials[dials[d].t])
    /\ [][\A d \in DOMAIN dials : \A m \in net :
            ( /\ TimedOut(d)
              /\ m.msg.ID = dials[d].id
              /\ HandleConnectionResponse(dials[d].t, m) )
            => (conns' = conns /\ connections' = connections)]_vars

\* A Dial to the other transport timed out before the response was processed;
\* the remote had answered, and the response has since been received and
\* discarded: it is no longer in the mixnet and the dialer has no connection.
C10_Witness ==
    \E d \in DOMAIN dials :
        /\ TimedOut(d)
        /\ Remote(d) # dials[d].t
        /\ tstate[dials[d].t].closePc = 0
        /\ \E c \in DOMAIN conns :
             conns[c].t = Remote(d) /\ conns[c].id = dials[d].id /\ conns[c].closePc = 0
        /\ \A m \in net : m.msg.ID # dials[d].id
        /\ \A c \in DOMAIN conns : conns[c].t = dials[d].t => conns[c].id # dials[d].id

\* Dial has returned the peer-mismatch error.
Mismatched(d) == dials[d].pc = "done" /\ dials[d].err = "mismatch"

\* C11: a Dial given a non-empty expected peer never returns a connection whose
\* remote peer is another identity; when it returns the peer-mismatch error the
\* connection created for the response carried another identity, is closed and
\* is not in the connection index.
C11_MismatchClosesConnection ==
    \A d \in DOMAIN dials :
        /\ (dials[d].conn # 0 /\ dials[d].p # NoPeer)
              => conns[dials[d].conn].remotePeer = dials[d].p
        /\ Mismatched(d) =>
              /\ dials[d].conn = 0
              /\ dials[d].tmp # 0
              /\ conns[dials[d].tmp].remotePeer # dials[d].p
              /\ ConnClosed(conns[dials[d].tmp])
              /\ \A k \in DOMAIN connections[dials[d].t] :
                    connections[dials[d].t][k] # dials[d].tmp

\* A Dial that expected another peer than the one that answered has returned
\* after the Close it called ran to its end.
C11_Witness ==
    \E d \in DOMAIN dials :
        /\ Mismatched(d)
        /\ Remote(d) # dials[d].t
        /\ dials[d].p # NoPeer
        /\ conns[dials[d].tmp].closePc = 3
        /\ tstate[dials[d].t].closePc = 0

\* C12: every Dial call returns: once started it eventually comes back with a
\* connection or an error.
C12_DialReturns ==
    \A d \in 1..MaxDials : (d \in DOMAIN dials) ~> (d \in DOMAIN dials /\ dials[d].pc = "done")

\* The nonces pushed before the queue was armed.
PreArm ==
    SubSeq(qlog.pushed, 1, IF qlog.armedAt = -1 THEN Len(qlog.pushed) ELSE qlog.armedAt)

\* Before arming nothing is released and every pushed nonce is buffered, in a
\* sorted index.
NothingReleasedBeforeArm ==
    (qlog.armedAt = -1 /\ qlog.resets = 0) =>
        /\ qlog.released = << >>
        /\ DOMAIN mq.pending = Range(qlog.pushed)
        /\ Range(mq.nonces) = Range(qlog.pushed)
        /\ \A i, j \in DOMAIN mq.nonces : i < j => mq.nonces[i] < mq.nonces[j]

\* The queue is armed and Pop yields nothing more.
ArmedAndDrained == qlog.armedAt >= 0 /\ qlog.resets = 0 /\ Pop(mq).ready = << >>

\* C13: nothing is released before arming, and once the armed queue
\* has been drained by Pop every frame buffered before arming has been
\* released, in ascending nonce order.
C13_AllBufferedObtainable ==
    /\ NothingReleasedBeforeArm
    /\ ArmedAndDrained =>
          /\ Range(PreArm) \subseteq Range(ReleasedNonces)
          /\ ReleasedNonces = Iota(Len(qlog.released))

\* C14: when Transport.Close has gone through its listeners and connections,
\* every listener of the transport is shut down, every Dial still waiting has
\* its result slot closed or filled, and the listener set, the pending-dial
\* table and the connection index of the transport are empty.
C14_CloseLeavesTransportEmpty ==
    \A t \in Peers :
        tstate[t].closePc = 4 =>
            /\ \A l \in DOMAIN lsn : lsn[l].t = t => lsn[l].closed
            /\ \A d \in DOMAIN dials :
                  (dials[d].t = t /\ dials[d].pc = "select")
                      => (dials[d].chClosed \/ dials[d].resultCh # << >>)
            /\ listeners[t] = {}
            /\ DOMAIN pendingDials[t] = {}
            /\ DOMAIN connections[t] = {}

\* C15: once Conn.Close has finished on a connection, the connection is marked
\* closed, no key of its transport's index leads to it, and its table of
\* pending outbound opens is empty.
C15_ClosedConnectionLeavesNothing ==
    \A c \in DOMAIN conns :
        conns[c].closePc = 3 =>
            /\ ConnClosed(conns[c])
            /\ \A id \in DOMAIN connections[conns[c].t] : connections[conns[c].t][id] # c
            /\ DOMAIN conns[c].pendingOutbound = {}

\* C16: once listener.Close has returned, the listener is not among its
\* transport's registered listeners and no Accept on it returns a connection.
C16_ClosedListenerAcceptsNothing ==
    [][\A l \in DOMAIN lsn :
          lsn[l].closePc = 2 =>
              /\ l \notin listeners[lsn[l].t]
              /\ lsn'[l].accepted = lsn[l].accepted]_vars

\* C17: whatever the Close, CloseRead and Reset calls on a substream, the
\* Close frames arriving for it and the closing of its connection, at most one
\* Close frame is sent for it, its inbound queue is closed at most once, and
\* a local close that has finished has closed it exactly once.
C17_LocalCloseIsIdempotent ==
    \A s \in DOMAIN subs :
        /\ subs[s].closeFrames <= 1
        /\ subs[s].closes <= 1
        /\ subs[s].closing = "done" => subs[s].closes = 1

\* A local close called twice on a substream, its Close frame sent, about to
\* close the inbound queue that a Close frame of the peer or the closing of
\* the connection has closed in the meantime.
C17_Witness ==
    \E s \in DOMAIN subs :
        /\ subs[s].ccalls = MaxCloses
        /\ subs[s].closing = "finish"
        /\ subs[s].closeFrames = 1
        /\ subs[s].chClosed

\* C18: what a reader has received is always the beginning of what was
\* delivered to its substream, and a Read has returned EOF only with the
\* inbound queue closed, nothing queued, nothing left in the residual buffer
\* and every delivered byte received; the next Read then finds the same.
C18_EofOnlyAfterEverythingRead ==
    \A s \in DOMAIN subs :
        /\ Len(subs[s].rlog) <= Len(subs[s].dlog)
        /\ subs[s].rlog = SubSeq(subs[s].dlog, 1, Len(subs[s].rlog))
        /\ subs[s].eof =>
              /\ subs[s].chClosed
              /\ subs[s].inbound = << >>
              /\ subs[s].buffer = << >>
              /\ subs[s].rlog = subs[s].dlog

\* A reader that got EOF after the peer's Close frame was processed, having
\* received the bytes of two Data frames delivered before it.
C18_Witness ==
    \E s \in DOMAIN subs :
        /\ subs[s].eof
        /\ subs[s].remoteClosed
        /\ ~subs[s].localClosed
        /\ ~ConnClosed(conns[subs[s].conn])
        /\ Len(subs[s].rlog) > MaxWriteLen

\* C19: once a substream is locally closed, no Read on it returns data: what
\* the reader has received does not grow any more.
C19_NoDataAfterLocalClose ==
    [][\A s \in DOMAIN subs :
          subs[s].localClosed => subs'[s].rlog = subs[s].rlog]_vars

\* The frames put on the network by a step.
NewFrames == net' \ net

\* C20: a Write call on a locally closed substream sends no frame, leaves the
\* nonce counter of the connection alone and writes nothing; a Write call that
\* succeeds sends exactly one frame, a Data frame of the substream carrying
\* under the next nonce all the bytes the call reports as written.
C20_WriteAllOrNothing ==
    [][\A s \in DOMAIN subs :
          subs'[s].wcalls = subs[s].wcalls + 1 =>
              LET c == subs[s].conn
                  n == subs'[s].wcount - subs[s].wcount
              IN  /\ subs[s].localClosed =>
                        /\ NewFrames = {}
                        /\ conns'[c].nonce = conns[c].nonce
                        /\ n = 0
                  /\ n > 0 =>
                        /\ ~subs[s].localClosed
                        /\ conns'[c].nonce = conns[c].nonce + 1
                        /\ \E f \in NewFrames :
                              /\ NewFrames = { f }
                              /\ f.to = conns[c].remoteRecipient
                              /\ f.msg.Type = "Transport"
                              /\ f.msg.ID = conns[c].id
                              /\ f.msg.Nonce = conns[c].nonce + 1
                              /\ f.msg.Message.Type = "Data"
                              /\ f.msg.Message.ID = subs[s].id
                              /\ Len(f.msg.Message.Data) = n
                              /\ \A i \in 1..n : f.msg.Message.Data[i].pos = subs[s].wcount + i]_vars

\* A substream on which one Write of MaxWriteLen bytes succeeded and a second
\* Write, made after the local close, was refused.
C20_Witness ==
    \E s \in DOMAIN subs :
        /\ subs[s].localClosed
        /\ subs[s].wcalls = 2
        /\ subs[s].wcount = MaxWriteLen

\* C21: the OpenStream calls made in parallel on a connection return
\* substreams that differ from each other and carry the SubstreamID each call
\* generated; every byte delivered to a substream was written on its remote
\* end, the substream with the same SubstreamID; and once everything sent has
\* been delivered and read, every OpenStream call has returned its substream
\* and every byte written on a substream has been read at its remote end.
C21_ParallelStreamsAreIndependent ==
    /\ \A o \in DOMAIN opens :
          opens[o].returned # 0 =>
              /\ subs[opens[o].returned].id = opens[o].sid
              /\ subs[opens[o].returned].conn = opens[o].conn
              /\ \A p \in DOMAIN opens : opens[p].returned = opens[o].returned => p = o
    /\ \A s \in DOMAIN subs : \A k \in DOMAIN subs[s].dlog :
          subs[s].dlog[k].w \in RemoteEnds(s)
    /\ Quiescent =>
          /\ \A o \in DOMAIN opens : opens[o].pc = "done" /\ opens[o].returned # 0
          /\ \A s \in DOMAIN subs :
                (subs[s].held /\ subs[s].wcount > 0) =>
                    \E r \in RemoteEnds(s) :
                        /\ Len(subs[r].rlog) = subs[s].wcount
                        /\ \A k \in DOMAIN subs[r].rlog :
                              subs[r].rlog[k] = [ w |-> s, pos |-> k ]

\* MaxOpens OpenStream calls on one connection have returned, a Write was made
\* on each of the substreams, and each remote end has read all of it.
C21_Witness ==
    /\ Quiescent
    /\ Len(opens) = MaxOpens
    /\ \A o \in DOMAIN opens :
          /\ opens[o].returned # 0
          /\ opens[o].conn = opens[1].conn
          /\ subs[opens[o].returned].wcount > 0
          /\ \E r \in RemoteEnds(opens[o].returned) :
                Len(subs[r].rlog) = subs[opens[o].returned].wcount

\* C22: when the gateway session of a transport has failed, its dispatcher
\* has returned and nothing is left to happen, the transport is closed: its
\* listeners are shut down and unregistered, no dial is pending, and no
\* connection of it is indexed or open.
C22_GatewayFailureClosesTransport ==
    \A t \in Peers :
        (tstate[t].sessionFailed /\ disp[t].pc = "stopped" /\ ~ENABLED NextGateway) =>
            /\ \A l \in DOMAIN lsn : lsn[l].t = t => lsn[l].closed
            /\ listeners[t] = {}
            /\ DOMAIN pendingDials[t] = {}
            /\ DOMAIN connections[t] = {}
            /\ \A c \in DOMAIN conns : conns[c].t = t => ConnClosed(conns[c])

\* C23: Encode accepts every well-formed message, and always with the bytes
\* the message determines; Decode of these bytes succeeds and yields the
\* message again.
C23_DecodeInvertsEncode ==
    /\ codec.pc \in { "wire", "back" } =>
          /\ codec.wire.err = ""
          /\ codec.wire = Encode(codec.msg[1])
    /\ codec.pc = "back" => codec.back = [ err |-> "", val |-> codec.msg ]

\* A Data frame with a payload has gone through Encode and Decode.
C23_Witness ==
    /\ codec.pc = "back"
    /\ codec.msg[1].Type = MessageTypeTransport
    /\ codec.msg[1].Transport[1].Message.Type = SubstreamMessageData
    /\ Len(codec.msg[1].Transport[1].Message.Data) = MaxPayloadLen
    /\ codec.msg[1].Transport[1].Nonce > 256

\* C24: once Transport.Close has returned, no step creates a connection of
\* the transport, adds a key to its connection index or queues a connection
\* on one of its listeners, and every connection of the transport is closed.
C24_NothingDispatchedAfterClose ==
    [][\A t \in Peers :
          tstate[t].closePc = 4 =>
              /\ \A c \in DOMAIN conns' : conns'[c].t = t => c \in DOMAIN conns
              /\ DOMAIN connections'[t] \subseteq DOMAIN connections[t]
              /\ \A l \in DOMAIN lsn :
                    lsn[l].t = t => Len(lsn'[l].incoming) <= Len(lsn[l].incoming)
              /\ \A c \in DOMAIN conns : conns[c].t = t => ConnClosed(conns[c])]_vars

\* C25: once Conn.Close has finished on a connection, no step advances its
\* nonce counter or hands a transport frame of it to the gateway.
C25_ClosedConnectionSendsNothing ==
    [][\A c \in DOMAIN conns :
          conns[c].closePc = 3 =>
              /\ conns'[c].nonce = conns[c].nonce
              /\ conns'[c].sent = conns[c].sent]_vars

\* C26: when a Dial to another transport has returned the error of the
\* handshake timeout, of the caller's context or of the transport shutdown, the
\* connection index of the dialing transport holds no open connection under
\* the ConnectionID of that dial.
C26_FailedDialLeavesNoConnection ==
    \A d \in DOMAIN dials :
        ( /\ dials[d].pc = "done"
          /\ dials[d].err \in { "deadline", "canceled", "shutdown" }
          /\ dials[d].remoteRecipient # SelfRecipient(dials[d].t) ) =>
            \A id \in DOMAIN connections[dials[d].t] :
                id = dials[d].id => ConnClosed(conns[connections[dials[d].t][id]])

\* C27: when an OpenStream call has returned an error and no Conn.Close is
\* under way on its connection, the SubstreamID it generated is a key neither
\* of the substream table nor of the pending outbound table of the connection.
C27_FailedOpenLeavesNoSubstream ==
    \A o \in DOMAIN opens :
        ( /\ opens[o].pc = "done"
          /\ opens[o].err # ""
          /\ conns[opens[o].conn].closePc \in { 0, 3 } ) =>
            /\ opens[o].sid \notin DOMAIN conns[opens[o].conn].streams
            /\ opens[o].sid \notin DOMAIN conns[opens[o].conn].pendingOutbound

\* C28: the dispatcher processing an OpenRequest does not panic on a send
\* to the closed inbound-substream queue of the connection: whatever Conn.Close
\* has done by then, the process goes on.
C28_EnqueueInboundStreamNeverPanics ==
    [][\A t \in Peers :
          (disp[t].pc = "frame" /\ disp[t].frame.Message.Type = "OpenRequest")
              => tstate'[t].panicked = tstate[t].panicked]_vars

\* C29: the dispatcher processing a ConnectionRequest does not panic on a
\* send to the closed incoming queue of a listener: whatever listener.Close
\* or Transport.Close has done by then, the process goes on.
C29_ListenerEnqueueNeverPanics ==
    [][\A t \in Peers :
          disp[t].pc = "idle" => tstate'[t].panicked = tstate[t].panicked]_vars

\* C30: CloseRead, CloseWrite and Close are one full close: the first close
\* call on a substream of an open connection (the step that sets localClosed)
\* also hands a Close frame to the send path, marks the substream
\* remote-closed and closes its inbound byte queue.
C30_FirstCloseIsFullClose ==
    [][\A s \in DOMAIN subs :
          (/\ s \in DOMAIN subs'
           /\ ~subs[s].localClosed
           /\ subs'[s].localClosed
           /\ ~ConnClosed(conns[subs[s].conn]))
              => /\ subs'[s].closeFrames = subs[s].closeFrames + 1
                 /\ subs'[s].remoteClosed
                 /\ subs'[s].chClosed]_vars

\* The OpenStream call o was cancelled and has returned before any
\* OpenResponse for it was processed.
Cancelled(o) ==
    /\ opens[o].pc = "done"
    /\ opens[o].err = "canceled"
    /\ ~opens[o].acked

\* C31: a cancelled OpenStream drops its pending-outbound entry when it
\* returns, and an OpenResponse for its SubstreamID that the dispatcher
\* processes afterwards is discarded: no substream is indexed under that ID
\* and the call's ready signal is not closed.
C31_CancelledOpenIgnoresResponse ==
    [][\A o \in DOMAIN opens :
          LET c   == opens[o].conn
              sid == opens[o].sid
          IN  /\ (opens[o].pc = "ctxdone" /\ opens'[o].pc = "done")
                    => sid \notin DOMAIN conns'[c].pendingOutbound
              /\ (/\ Cancelled(o)
                  /\ AtFrame(conns[c].t, "OpenResponse")
                  /\ disp[conns[c].t].conn = c
                  /\ disp[conns[c].t].frame.Message.ID = sid
                  /\ disp'[conns[c].t] # disp[conns[c].t])
                    => /\ sid \notin DOMAIN conns'[c].streams
                       /\ sid \notin DOMAIN conns'[c].pendingOutbound
                       /\ opens'[o] = opens[o]]_vars

\* An OpenStream was cancelled and returned, and the OpenResponse that arrived
\* for it afterwards has been processed: the peer's first frame was released.
C31_Witness ==
    \E o \in DOMAIN opens :
        /\ Cancelled(o)
        /\ ~opens[o].readyClosed
        /\ conns[opens[o].conn].queue.nextExpectedNonce = 2
        /\ disp[conns[opens[o].conn].t].pc = "idle"
        /\ ~ConnClosed(conns[opens[o].conn])
        /\ opens[o].sid \notin DOMAIN conns[opens[o].conn].streams

\* C32: a ConnectionRequest whose ConnectionID already has an indexed
\* connection is discarded: the step that consumes it creates and replaces no
\* connection, leaves every connection and its reorder queue as they are,
\* sends nothing and notifies no listener.
C32_DuplicateRequestIsDiscarded ==
    [][\A t \in Peers : \A m \in Inbox(t) :
          (/\ m.msg.Type = "ConnectionRequest"
           /\ m.msg.ID \in DOMAIN connections[t]
           /\ m \notin net')
              => /\ connections' = connections
                 /\ conns' = conns
                 /\ lsn' = lsn
                 /\ net' = net \ { m }
                 /\ tstate' = tstate]_vars

\* A repeated ConnectionRequest has been delivered to B and consumed: the
\* connection it names is still the one indexed and was handed to the listener
\* once, and its reorder queue is in use.
C32_Witness ==
    \E c \in DOMAIN conns :
        /\ conns[c].t = "B"
        /\ tstate["B"].duplicates = 1
        /\ \A m \in Inbox("B") : m.msg.Type # "ConnectionRequest"
        /\ conns[c].id \in DOMAIN connections["B"]
        /\ connections["B"][conns[c].id] = c
        /\ conns[c].queue.nextExpectedNonce = 2
        /\ lsn # << >>
        /\ Len(lsn[1].incoming) + Len(lsn[1].accepted) = 1

\* C33: the step that consumes a ConnectionRequest with a recipient and a
\* ConnectionID that is not indexed creates one connection with an armed
\* reorder queue, indexes it under that ID, sends to the request's recipient
\* a ConnectionResponse with the same ID, the local peer identity and no
\* recipient, and appends the connection to the queue of every registered
\* listener.
C33_NewRequestCreatesConnection ==
    [][\A t \in Peers : \A m \in Inbox(t) :
          (/\ m.msg.Type = "ConnectionRequest"
           /\ m.msg.Recipient # NoRecipient
           /\ m.msg.ID \notin DOMAIN connections[t]
           /\ m \notin net')
              => LET c == Len(conns) + 1
                 IN  /\ Len(conns') = c
                     /\ conns'[c].t = t
                     /\ conns'[c].id = m.msg.ID
                     /\ conns'[c].remotePeer = m.msg.PeerID
                     /\ conns'[c].remoteRecipient = m.msg.Recipient
                     /\ conns'[c].queue.nextExpectedNonce = 1
                     /\ conns'[c].queue.pending = << >>
                     /\ ~ConnClosed(conns'[c])
                     /\ connections'[t] = MapPut(connections[t], m.msg.ID, c)
                     /\ net' = (net \ { m }) \cup
                                { [ to  |-> m.msg.Recipient,
                                    msg |-> [ Type |-> "ConnectionResponse",
                                              PeerID |-> LocalPeer(t),
                                              Recipient |-> NoRecipient,
                                              ID |-> m.msg.ID,
                                              Nonce |-> 0, Message |-> NoSub ] ] }
                     /\ \A l \in listeners[t] :
                           lsn'[l].incoming = Append(lsn[l].incoming, c)]_vars

\* B has processed the ConnectionRequest of A: the connection is indexed, the
\* response is on its way to A and each of B's listeners has the connection
\* in its queue.
C33_Witness ==
    /\ Cardinality(listeners["B"]) = MaxRegistered
    /\ \E c \in DOMAIN conns :
          /\ conns[c].t = "B"
          /\ conns[c].id \in DOMAIN connections["B"]
          /\ connections["B"][conns[c].id] = c
          /\ \A l \in listeners["B"] : lsn[l].incoming = << c >>
          /\ \E m \in Inbox("A") : m.msg.Type = "ConnectionResponse" /\ m.msg.ID = conns[c].id

\* A substream is live once it has been given out (returned by OpenStream or
\* AcceptStream, or queued for AcceptStream) and while neither side has
\* closed it.
Live(s) ==
    /\ ~subs[s].localClosed
    /\ ~subs[s].remoteClosed
    /\ \/ subs[s].held
       \/ s \in Range(conns[subs[s].conn].inboundSubstreams)

\* C34: in every reachable state each live substream is the one its
\* connection's substream table holds under its SubstreamID; so no OpenRequest
\* or OpenResponse has put another substream in the place of a live one.
C34_LiveSubstreamIsIndexed ==
    \A s \in DOMAIN subs :
        Live(s) => /\ subs[s].id \in DOMAIN conns[subs[s].conn].streams
                   /\ conns[subs[s].conn].streams[subs[s].id] = s

\* C35: once the reader or the writer of a running session has terminated
\* and the goroutines have done all they can do without further traffic, the
\* websocket is closed, the inbound queue is closed and both goroutines have
\* stopped; and the inbound queue is never closed before the websocket.
C35_TerminationTearsDownBoth ==
    /\ session.inboundClosed => session.connClosed
    /\ (/\ session.pc = "running"
        /\ session.reader \in { "closing", "done" } \/ session.writer = "done"
        /\ ~ENABLED SessionOwnStep)
          => /\ session.connClosed
             /\ session.inboundClosed
             /\ session.reader = "done"
             /\ session.writer = "done"

\* The frames the dispatcher has received or will receive, in that order.
InboundOrder == session.delivered \o session.inbound

\* C36: every well-formed Received frame read before the SelfAddress is on
\* the inbound queue or has been received from it by the dispatcher, none
\* was dropped, and the queue hands frames over in arrival order, so those
\* frames come ahead of the ones read later.
C36_StartupFramesAreQueued ==
    /\ session.pre \cap session.dropped = {}
    /\ session.pre \subseteq Range(InboundOrder)
    /\ \A i, j \in DOMAIN InboundOrder : i < j => InboundOrder[i] < InboundOrder[j]

\* The nonces pushed so far are exactly 1..N for some N, each at least once.
CoversOneToN == qlog.pushed # << >> /\ Range(qlog.pushed) = 1..Cardinality(Range(qlog.pushed))

\* C37: when TryPush calls on a queue armed beforehand have carried every
\* nonce of 1..N at least once, in any order and with repeats, and Pop yields
\* nothing more, then the frames released are the nonces 1..N, each once, and
\* nothing with a nonce below nextExpectedNonce is still buffered.
C37_RepeatsDoNotWedge ==
    ( /\ qlog.resets = 0
      /\ qlog.armedAt = 0
      /\ CoversOneToN
      /\ Pop(mq).ready = << >> )
    => /\ ReleasedNonces = Iota(Cardinality(Range(qlog.pushed)))
       /\ \A n \in DOMAIN mq.pending : n >= mq.nextExpectedNonce
       /\ \A i \in DOMAIN mq.nonces : mq.nonces[i] >= mq.nextExpectedNonce

\* C38: with a substream whose reader never reads, data written to another
\* substream is still processed in the end: once A has written to the second
\* substream, the bytes eventually reach that substream at B.
C38_OtherSubstreamStillServed ==
    (\E s \in EndsAt("A", 2) : subs[s].wcount > 0)
        ~> (\E r \in EndsAt("B", 2) : Len(subs[r].dlog) > 0)

\* The entry of Dial d leaves pendingDials in this step: whoever takes it out
\* is the one that closes the result slot or sends the connection on it.
DialEntryTaken(d) ==
    LET t  == dials[d].t
        id == dials[d].id
    IN  /\ id \in DOMAIN pendingDials[t]
        /\ pendingDials[t][id] = d
        /\ id \notin DOMAIN pendingDials'[t]

\* The entry of OpenStream call o leaves pendingOutbound in this step: whoever
\* takes it out is the one that closes the ready signal.
OpenEntryTaken(o) ==
    LET c   == opens[o].conn
        sid == opens[o].sid
    IN  /\ sid \in DOMAIN conns[c].pendingOutbound
        /\ conns[c].pendingOutbound[sid] = o
        /\ sid \notin DOMAIN conns'[c].pendingOutbound

\* C39: under every interleaving of Transport.Close, Conn.Close, listener
\* Close, substream Close and Reset, the Dial timeout and the inbound
\* ConnectionResponse, OpenResponse and Close messages, no signalling channel
\* is closed twice and no connection is sent on a closed dial result slot:
\* the step that takes a Dial's entry out of pendingDials finds the result
\* slot open, and nothing is sent on a slot once it is closed; the step that
\* takes a pending open out of pendingOutbound finds its ready signal open; a
\* substream's inbound queue is closed at most once; a connection passes the
\* compare-and-swap that closes closeCh and inboundSubstreams once, and a
\* listener shut down stays shut down.
C39_NoSignalClosedTwice ==
    [][ /\ \A d \in DOMAIN dials :
              /\ DialEntryTaken(d) => ~dials[d].chClosed
              /\ dials[d].chClosed =>
                    /\ dials'[d].chClosed
                    /\ Len(dials'[d].resultCh) <= Len(dials[d].resultCh)
        /\ \A o \in DOMAIN opens :
              /\ OpenEntryTaken(o) => ~opens[o].readyClosed
              /\ opens[o].readyClosed => opens'[o].readyClosed
        /\ \A s \in DOMAIN subs' : subs'[s].closes <= 1
        /\ \A c \in DOMAIN conns :
              conns'[c].closePc \in { conns[c].closePc, conns[c].closePc + 1 }
        /\ \A l \in DOMAIN lsn : lsn[l].closed => lsn'[l].closed ]_vars

\* The Dial timed out and removed its entry, closing the result slot, the
\* listening transport answered the request and the late ConnectionResponse
\* was handled, and Transport.Close of the dialing transport ran to its end:
\* three contenders for the one result slot, which was closed once and holds
\* no connection.
C39_Witness ==
    /\ dials # << >>
    /\ dials[1].pc = "done"
    /\ dials[1].err = "deadline"
    /\ dials[1].chClosed
    /\ dials[1].resultCh = << >>
    /\ tstate["A"].closePc = 4
    /\ ~tstate["B"].ctxDone
    /\ \E c \in DOMAIN conns : conns[c].t = "B"
    /\ \A m \in net : m.msg.Type # "ConnectionResponse"

\* C40: arming moves nextExpectedNonce from 0 to 1 and leaves the buffer
\* alone; arming an armed queue is rejected (the panic) and the queue is not
\* changed; Reset leaves the queue as New made it, with nothing buffered;
\* while the queue is not armed Pop yields nothing, whatever was pushed since;
\* and once it is armed again the frame with nonce 1 is the one released.
C40_ArmAndReset ==
    [][ /\ (mq.nextExpectedNonce = 0 /\ mq'.nextExpectedNonce # 0) =>
              /\ mq' = [ mq EXCEPT !.nextExpectedNonce = 1 ]
              /\ TryPush(mq', [ Nonce |-> 1, Message |-> 0 ]).ready
                    = << [ Nonce |-> 1, Message |-> 0 ] >>
        /\ (qlog'.panicked /\ ~qlog.panicked) =>
              /\ mq.nextExpectedNonce # 0
              /\ mq' = mq
        /\ qlog'.resets # qlog.resets => mq' = NewQueue
        /\ mq.nextExpectedNonce = 0 => Pop(mq).ready = << >>
        /\ mq'.nextExpectedNonce = 0 => Pop(mq').ready = << >> ]_vars

\* The queue was reset and armed again: of the frames pushed, all with a nonce
\* of 1 or more, none was released and none is buffered any more, so Reset
\* dropped what was buffered; nonce 1 is the next expected.
C40_Witness ==
    /\ qlog.resets = 1
    /\ ~qlog.panicked
    /\ mq.nextExpectedNonce = 1
    /\ Len(qlog.pushed) >= 2
    /\ \A i \in DOMAIN qlog.pushed : qlog.pushed[i] >= 1
    /\ qlog.released = << >>
    /\ mq.nonces = << >>
    /\ DOMAIN mq.pending = {}

====
